---- MODULE Spec2Model ----
(***************************************************************************)
(* weather-cache-api: the TTL cache (src/services/cache.js), the           *)
(* exponential-backoff retry executor (src/utils/retry.js) and the weather *)
(* lookup that composes them (src/services/weatherService.js).             *)
(*                                                                         *)
(* JavaScript values are records with a field "kind": null, undefined,     *)
(* opaque cached data, weather records and error objects.  Time is the     *)
(* value of Date.now() in milliseconds, counted from the start of the run. *)
(***************************************************************************)
EXTENDS Integers, Sequences, FiniteSets, TLC

VARIABLES
    now,        \* Date.now()
    cache,      \* CacheService.cache: the Map, a function key -> {data, expiresAt}
    last,       \* the most recent call on the cache service, with what it returned
    prev,       \* the call before it
    setInfo,    \* per key, the ttlMs and the instant of the latest set on it
    ledger,     \* per key ever set by a task, what last happened to its entry
    \* one call of retryWithExponentialBackoff per task
    opts,       \* the destructured options of the call
    rpc,        \* where the call is: idle, awaitFn, sleeping, resolved, rejected
    attempt,    \* the loop variable
    lastError,  \* the variable lastError
    settled,    \* the value the call resolved with, or the one it rejected with
    wakeAt,     \* the instant the pending sleep(delay) ends
    calls,      \* how many times fn was invoked
    raised,     \* the error the most recent failed invocation of fn raised
    waits,      \* the delays passed to sleep, in order
    history,    \* per invocation of fn that settled, how it ended
    verdict,    \* what the last evaluation of shouldRetry gave
    \* the weather service, and one call of getWeatherByCity per task
    config,     \* what the constructor read: apiKey, cacheTtl, maxRetryAttempts
    lpc,        \* where the lookup is: idle, fetching, storing, done, failed
    lcity,      \* the argument city
    lres,       \* the record the lookup returned, or the error it threw
    lfound,     \* what the store held under the lookup's key when it began
    lwrites,    \* how many times the lookup called cacheService.set
    serial,     \* how many weather records were produced so far
    \* the rest of the process
    timer,      \* cleanupInterval: whether it is armed, when it is next due,
                \* and how many times its callback ran
    bare,       \* the Map of a second store on which cleanup() is never called
    http,       \* one GET /weather request: the handler's position, the query
                \* parameter, the outcome of the lookup and the response
    proc        \* the server process: its phase, the HTTP server and its
                \* connections, the signal received and the exit code

restVars == <<timer, bare, http, proc>>

cacheVars == <<now, cache, last, prev, setInfo, ledger, restVars>>
retryVars == <<opts, rpc, attempt, lastError, settled, wakeAt, calls, raised,
               waits, history, verdict>>

lookupVars == <<config, lpc, lcity, lres, lfound, lwrites, serial>>

vars == <<now, cache, last, prev, setInfo, ledger,
          opts, rpc, attempt, lastError, settled, wakeAt, calls, raised,
          waits, history, verdict,
          config, lpc, lcity, lres, lfound, lwrites, serial,
          timer, bare, http, proc>>

-----------------------------------------------------------------------------
(* Bounds *)

MaxNow == 2         \* the clock of the cache specification stops here
MaxTtl == 1         \* largest ttlMs passed to set
NumTasks == 2       \* concurrently running asynchronous tasks
MaxAttempts == 3    \* largest maxAttempts passed to the retry executor
MaxTicks == 2       \* runs of the cleanup interval's callback that are followed
MaxConnections == 3 \* connections the HTTP server has open at a time

-----------------------------------------------------------------------------
(* JavaScript values *)

Null == [kind |-> "null"]
Undefined == [kind |-> "undefined"]

\* a string is the sequence of its characters
Keys == {<<"l", "a">>, <<"n", "y">>}
\* the payloads the callers store: two objects that differ
Data == {[kind |-> "data", city |-> "Tokyo", temp |-> 25],
         [kind |-> "data", city |-> "Tokyo", temp |-> 30]}
\* ttlMs is not validated by set: a negative duration is accepted like any other
TTLs == {-1} \cup (0..MaxTtl)

Put(f, k, v) == [x \in (DOMAIN f) \cup {k} |-> IF x = k THEN v ELSE f[x]]
Remove(f, S) == [x \in (DOMAIN f) \ S |-> f[x]]
EmptyMap == [x \in {} |-> Null]

-----------------------------------------------------------------------------
(* CacheService: each method as a function of the Map and of Date.now()    *)

\* the expiry test shared by get, getStats and cleanup
expired_atDeadline(n, item) == n >= item.expiresAt

expired(n, item) == n > item.expiresAt

get_keepExpired(c, n, key) ==
    IF key \notin DOMAIN c
    THEN [ret |-> Null, cache |-> c]
    ELSE IF expired(n, c[key])
         THEN [ret |-> Null, cache |-> c]
         ELSE [ret |-> c[key].data, cache |-> c]

get_atDeadline(c, n, key) ==
    IF key \notin DOMAIN c
    THEN [ret |-> Null, cache |-> c]
    ELSE IF n >= c[key].expiresAt
         THEN [ret |-> Null, cache |-> Remove(c, {key})]
         ELSE [ret |-> c[key].data, cache |-> c]

get(c, n, key) ==
    IF key \notin DOMAIN c
    THEN [ret |-> Null, cache |-> c]
    ELSE IF expired(n, c[key])
         THEN [ret |-> Null, cache |-> Remove(c, {key})]
         ELSE [ret |-> c[key].data, cache |-> c]

set_noClock(c, n, key, data, ttlMs) ==
    Put(c, key, [data |-> data, expiresAt |-> ttlMs])

set_ifAbsent(c, n, key, data, ttlMs) ==
    IF key \in DOMAIN c THEN c
    ELSE Put(c, key, [data |-> data, expiresAt |-> n + ttlMs])

set_keepFresh(c, n, key, data, ttlMs) ==
    IF key \in DOMAIN c /\ ~expired(n, c[key]) THEN c
    ELSE Put(c, key, [data |-> data, expiresAt |-> n + ttlMs])

set_keepExpiry(c, n, key, data, ttlMs) ==
    IF key \in DOMAIN c
    THEN Put(c, key, [data |-> data, expiresAt |-> c[key].expiresAt])
    ELSE Put(c, key, [data |-> data, expiresAt |-> n + ttlMs])

set(c, n, key, data, ttlMs) ==
    Put(c, key, [data |-> data, expiresAt |-> n + ttlMs])

delete_all(c, key) == EmptyMap

delete_none(c, key) == c

delete(c, key) == Remove(c, {key})

clear_none(c) == c

clear(c) == EmptyMap

\* the keys the loop of getStats counts in each branch
expiredKeys(c, n) == {k \in DOMAIN c : expired(n, c[k])}
validKeys(c, n) == {k \in DOMAIN c : ~expired(n, c[k])}

getStats_validOnly(c, n) ==
    [kind |-> "stats",
     totalEntries |-> Cardinality(validKeys(c, n)),
     validEntries |-> Cardinality(validKeys(c, n)),
     expiredEntries |-> Cardinality(expiredKeys(c, n))]

getStats(c, n) ==
    [kind |-> "stats",
     totalEntries |-> Cardinality(DOMAIN c),
     validEntries |-> Cardinality(validKeys(c, n)),
     expiredEntries |-> Cardinality(expiredKeys(c, n))]

cleanup_all(c, n) == EmptyMap

cleanup_none(c, n) == c

cleanup_fresh(c, n) == Remove(c, validKeys(c, n))

cleanup(c, n) == Remove(c, expiredKeys(c, n))

-----------------------------------------------------------------------------
(* Calls on the cache service, as a client (the tests, the weather service, *)
(* the cleanup timer) makes them                                            *)

\* a call: the method, its key and (for set) data argument, when it was made,
\* what it returned and, for getStats, the keys it counted as valid
NoCall ==
    [op |-> "none", key |-> <<>>, data |-> Undefined, at |-> 0, ret |-> Undefined,
     valid |-> {}]
Call(op, key, data, ret, valid) ==
    [op |-> op, key |-> key, data |-> data, at |-> now, ret |-> ret,
     valid |-> valid]

\* of the call before the last one, only what was called, on which key and
\* when is kept
Earlier(call) ==
    [op |-> call.op, key |-> call.key, data |-> call.data, at |-> call.at]

Record(call) == last' = call /\ prev' = Earlier(last)

CacheGet(k) ==
    /\ cache' = get(cache, now, k).cache
    /\ Record(Call("get", k, Undefined, get(cache, now, k).ret, {}))
    /\ UNCHANGED <<now, setInfo, ledger, restVars>>
    /\ UNCHANGED <<retryVars, lookupVars>>

CacheSet(k, v, t) ==
    /\ cache' = set(cache, now, k, v, t)
    /\ setInfo' = Put(setInfo, k, [at |-> now, ttlMs |-> t])
    /\ Record(Call("set", k, v, Undefined, {}))
    /\ UNCHANGED <<now, ledger, restVars>>
    /\ UNCHANGED <<retryVars, lookupVars>>

CacheDelete(k) ==
    /\ cache' = delete(cache, k)
    /\ Record(Call("delete", k, Undefined, Undefined, {}))
    /\ UNCHANGED <<now, setInfo, ledger, restVars>>
    /\ UNCHANGED <<retryVars, lookupVars>>

CacheClear ==
    /\ cache' = clear(cache)
    /\ Record(Call("clear", <<>>, Undefined, Undefined, {}))
    /\ UNCHANGED <<now, setInfo, ledger, restVars>>
    /\ UNCHANGED <<retryVars, lookupVars>>

CacheGetStats ==
    /\ Record(Call("getStats", <<>>, Undefined, getStats(cache, now),
                  validKeys(cache, now)))
    /\ UNCHANGED <<now, cache, setInfo, ledger, restVars>>
    /\ UNCHANGED <<retryVars, lookupVars>>

CacheCleanup ==
    /\ cache' = cleanup(cache, now)
    /\ Record(Call("cleanup", <<>>, Undefined, Undefined, {}))
    /\ UNCHANGED <<now, setInfo, ledger, restVars>>
    /\ UNCHANGED <<retryVars, lookupVars>>

\* time passes between two calls
Tick ==
    /\ now < MaxNow
    /\ now' = now + 1
    /\ UNCHANGED <<cache, last, prev, setInfo, ledger, restVars>>
    /\ UNCHANGED <<retryVars, lookupVars>>

-----------------------------------------------------------------------------
(* retryWithExponentialBackoff *)

Tasks == 1..NumTasks

Min(a, b) == IF a <= b THEN a ELSE b

\* the defaults of the destructured options
DefaultMaxAttempts == 3
DefaultBaseDelay == 1000
DefaultMaxDelay == 10000

\* Error objects: response is whether the error carries an HTTP response (its
\* status is then meaningful), code is error.code ("none" when it has none),
\* id is the invocation of the operation that raised it.
NetworkCodes == {"ECONNABORTED", "ENOTFOUND", "ECONNRESET"}
Codes == {"none", "ERR_BAD_REQUEST"} \cup NetworkCodes
Statuses == {400, 401, 404, 499, 500, 503}

Error(response, status, code, message, id) ==
    [kind |-> "error", response |-> response, status |-> status, code |-> code,
     message |-> message, id |-> id]

Errors(id) ==
    {Error(TRUE, s, c, "", id) : s \in Statuses, c \in Codes}
    \cup {Error(FALSE, 0, c, "", id) : c \in Codes}

\* what a classifier passed as options.shouldRetry does: the tests pass
\* predicates on the error; a classifier may also throw
CustomPolicies == {"always", "never", "throws"}
\* the exception a throwing classifier raises
ClassifierError == Error(FALSE, 0, "none", "shouldRetry threw", 0)

\* the value the j-th invocation of a succeeding operation resolves with
Value(j) == [kind |-> "value", id |-> j]

\* the options argument: an object with some of the four fields
Options ==
    {[maxAttempts |-> m, baseDelay |-> b, maxDelay |-> x, shouldRetry |-> p] :
        m \in -1..MaxAttempts, b \in {1, 2, 5}, x \in {3, 10}, p \in CustomPolicies}
    \cup {[maxAttempts |-> m, baseDelay |-> b, maxDelay |-> x] :
        m \in -1..MaxAttempts, b \in {1, 2, 5}, x \in {3, 10}}
    \cup {[maxAttempts |-> m, baseDelay |-> b] : m \in -1..MaxAttempts, b \in {10, 50}}
    \cup {[maxAttempts |-> m] : m \in -1..MaxAttempts}
    \cup {EmptyMap}

Field(options, name, default) ==
    IF name \in DOMAIN options THEN options[name] ELSE default

destructure(options) ==
    [maxAttempts |-> Field(options, "maxAttempts", DefaultMaxAttempts),
     baseDelay |-> Field(options, "baseDelay", DefaultBaseDelay),
     maxDelay |-> Field(options, "maxDelay", DefaultMaxDelay),
     shouldRetry |-> Field(options, "shouldRetry", "default")]

\* the default classifier: error.response?.status >= 500 || error.code === ...
shouldRetry_noReset(error) ==
    \/ (error.response /\ error.status >= 500)
    \/ error.code = "ECONNABORTED"
    \/ error.code = "ENOTFOUND"

shouldRetry_clientToo(error) ==
    \/ (error.response /\ error.status >= 400)
    \/ error.code = "ECONNABORTED"
    \/ error.code = "ENOTFOUND"
    \/ error.code = "ECONNRESET"

shouldRetry(error) ==
    \/ (error.response /\ error.status >= 500)
    \/ error.code = "ECONNABORTED"
    \/ error.code = "ENOTFOUND"
    \/ error.code = "ECONNRESET"

\* evaluating options.shouldRetry(error): "true", "false", or "raise" when the
\* classifier throws
classify(policy, error) ==
    CASE policy = "default" -> IF shouldRetry(error) THEN "true" ELSE "false"
      [] policy = "always" -> "true"
      [] policy = "never" -> "false"
      [] policy = "throws" -> "raise"

\* the loop condition
inLoop_strict(a, maxAttempts) == a < maxAttempts

inLoop_atLeastOnce(a, maxAttempts) == a = 1 \/ a <= maxAttempts

inLoop(a, maxAttempts) == a <= maxAttempts

\* the catch block's decision: "throw" the error, "retry" after a wait, or
\* "raise" when shouldRetry throws; shouldRetry is not evaluated on the last
\* attempt (|| short-circuits)
decide_oneShort(a, maxAttempts, policy, error) ==
    IF a + 1 >= maxAttempts THEN "throw"
    ELSE CASE classify(policy, error) = "true" -> "retry"
           [] classify(policy, error) = "false" -> "throw"
           [] classify(policy, error) = "raise" -> "raise"

decide_ignoreVerdict(a, maxAttempts, policy, error) ==
    IF a = maxAttempts THEN "throw" ELSE "retry"

decide_waitOnLast(a, maxAttempts, policy, error) ==
    CASE classify(policy, error) = "true" -> "retry"
      [] classify(policy, error) = "false" -> "throw"
      [] classify(policy, error) = "raise" -> "raise"

decide_failOpen(a, maxAttempts, policy, error) ==
    IF a = maxAttempts THEN "throw"
    ELSE CASE classify(policy, error) = "true" -> "retry"
           [] classify(policy, error) = "false" -> "throw"
           [] classify(policy, error) = "raise" -> "retry"

decide(a, maxAttempts, policy, error) ==
    IF a = maxAttempts THEN "throw"
    ELSE CASE classify(policy, error) = "true" -> "retry"
           [] classify(policy, error) = "false" -> "throw"
           [] classify(policy, error) = "raise" -> "raise"

\* Math.min(baseDelay * Math.pow(2, attempt - 1), maxDelay)
backoff_clampFirst(baseDelay, a, maxDelay) ==
    Min(baseDelay, maxDelay) * 2 ^ (a - 1)

backoff(baseDelay, a, maxDelay) == Min(baseDelay * 2 ^ (a - 1), maxDelay)

\* throw error: the caught value itself
propagate_wrapped(error) == [error EXCEPT !.message = "retries exhausted"]

propagate(error) == error

\* how an invocation of fn that failed with error e is classified, whether or
\* not the executor asked
Tag(policy, e) ==
    CASE classify(policy, e) = "true" -> "retryable"
      [] classify(policy, e) = "false" -> "nonretryable"
      [] classify(policy, e) = "raise" -> "raises"

\* entering the loop with attempt a: invoke fn, or leave the loop and throw
\* lastError
enterLoop(t, a, o, le) ==
    IF inLoop(a, o.maxAttempts)
    THEN /\ rpc' = [rpc EXCEPT ![t] = "awaitFn"]
         /\ calls' = [calls EXCEPT ![t] = @ + 1]
         /\ settled' = settled
    ELSE /\ rpc' = [rpc EXCEPT ![t] = "rejected"]
         /\ settled' = [settled EXCEPT ![t] = le]
         /\ calls' = calls

\* the call: destructure the options, lastError undefined, attempt = 1
retryWithExponentialBackoff(t, options) ==
    /\ opts' = [opts EXCEPT ![t] = destructure(options)]
    /\ attempt' = [attempt EXCEPT ![t] = 1]
    /\ lastError' = [lastError EXCEPT ![t] = Undefined]
    /\ enterLoop(t, 1, destructure(options), Undefined)
    /\ UNCHANGED <<wakeAt, raised, waits, history, verdict>>

\* await fn() returns v: return it
fnResolves(t, v) ==
    /\ rpc[t] = "awaitFn"
    /\ rpc' = [rpc EXCEPT ![t] = "resolved"]
    /\ settled' = [settled EXCEPT ![t] = v]
    /\ history' = [history EXCEPT ![t] = Append(@, "ok")]
    /\ UNCHANGED <<opts, attempt, lastError, wakeAt, calls, raised, waits, verdict>>

\* await fn() throws e: the catch block
fnRejects(t, e) ==
    LET o == opts[t]
        d == decide(attempt[t], o.maxAttempts, o.shouldRetry, e)
        delay == backoff(o.baseDelay, attempt[t], o.maxDelay)
    IN  /\ rpc[t] = "awaitFn"
        /\ lastError' = [lastError EXCEPT ![t] = e]
        /\ raised' = [raised EXCEPT ![t] = e]
        /\ history' = [history EXCEPT ![t] = Append(@, Tag(o.shouldRetry, e))]
        /\ verdict' = [verdict EXCEPT ![t] =
               IF attempt[t] = o.maxAttempts THEN "notAsked"
               ELSE classify(o.shouldRetry, e)]
        /\ CASE d = "throw" ->
                  /\ rpc' = [rpc EXCEPT ![t] = "rejected"]
                  /\ settled' = [settled EXCEPT ![t] = propagate(e)]
                  /\ UNCHANGED <<wakeAt, waits>>
             [] d = "raise" ->
                  /\ rpc' = [rpc EXCEPT ![t] = "rejected"]
                  /\ settled' = [settled EXCEPT ![t] = ClassifierError]
                  /\ UNCHANGED <<wakeAt, waits>>
             [] d = "retry" ->
                  /\ rpc' = [rpc EXCEPT ![t] = "sleeping"]
                  /\ wakeAt' = [wakeAt EXCEPT ![t] = now + delay]
                  /\ waits' = [waits EXCEPT ![t] = Append(@, delay)]
                  /\ UNCHANGED settled
        /\ UNCHANGED <<opts, attempt, calls>>

\* the timer of sleep(delay) fires: attempt++, and the loop goes on
wake_sharedAttempt(t) ==
    /\ rpc[t] = "sleeping"
    /\ now >= wakeAt[t]
    /\ attempt' = [u \in Tasks |-> attempt[t] + 1]
    /\ enterLoop(t, attempt[t] + 1, opts[t], lastError[t])
    /\ UNCHANGED <<opts, lastError, wakeAt, raised, waits, history, verdict>>

wake_sameAttempt(t) ==
    /\ rpc[t] = "sleeping"
    /\ now >= wakeAt[t]
    /\ attempt' = attempt
    /\ enterLoop(t, attempt[t], opts[t], lastError[t])
    /\ UNCHANGED <<opts, lastError, wakeAt, raised, waits, history, verdict>>

wake(t) ==
    /\ rpc[t] = "sleeping"
    /\ now >= wakeAt[t]
    /\ attempt' = [attempt EXCEPT ![t] = @ + 1]
    /\ enterLoop(t, attempt[t] + 1, opts[t], lastError[t])
    /\ UNCHANGED <<opts, lastError, wakeAt, raised, waits, history, verdict>>

-----------------------------------------------------------------------------
(* WeatherService *)

\* an environment variable: whether it is set, and the integer it holds
Unset == [given |-> FALSE, value |-> 0]
Env(n) == [given |-> TRUE, value |-> n]

DefaultCacheTtlMinutes == 3
DefaultMaxRetryAttempts == 3
FetchBaseDelay == 1000
FetchMaxDelay == 8000

\* parseInt(process.env.X) || default: NaN (the variable unset) and 0 are falsy
parseIntOr_keepZero(env, default) ==
    IF ~env.given THEN default ELSE env.value

parseIntOr(env, default) ==
    IF ~env.given THEN default
    ELSE IF env.value = 0 THEN default ELSE env.value

\* the constructor
WeatherService(apiKey, ttlMinutes, maxRetry) ==
    [apiKey |-> apiKey,
     cacheTtl |-> parseIntOr(ttlMinutes, DefaultCacheTtlMinutes) * 60 * 1000,
     maxRetryAttempts |-> parseIntOr(maxRetry, DefaultMaxRetryAttempts),
     env |-> [CACHE_TTL_MINUTES |-> ttlMinutes, MAX_RETRY_ATTEMPTS |-> maxRetry]]

\* the argument of getWeatherByCity: a string, or something else
Str(chars) == [type |-> "string", chars |-> chars]
NotAString(type) == [type |-> type, chars |-> <<>>]

Cities ==
    {Str(<<"L", "A">>), Str(<<" ", "l", "a", " ">>), Str(<<"n", "y">>),
     Str(<<>>), Str(<<" ">>), NotAString("null"), NotAString("undefined"),
     NotAString("number")}

Whitespace == {" "}

toLowerChar(c) ==
    CASE c = "L" -> "l"
      [] c = "A" -> "a"
      [] c = "N" -> "n"
      [] c = "Y" -> "y"
      [] OTHER -> c

toLowerCase_asIs(s) == s

toLowerCase(s) == [i \in 1..Len(s) |-> toLowerChar(s[i])]

RECURSIVE trimStart(_)
trimStart(s) ==
    IF s # <<>> /\ Head(s) \in Whitespace THEN trimStart(Tail(s)) ELSE s

RECURSIVE trimEnd(_)
trimEnd(s) ==
    IF s # <<>> /\ s[Len(s)] \in Whitespace
    THEN trimEnd(SubSeq(s, 1, Len(s) - 1))
    ELSE s

trim(s) == trimEnd(trimStart(s))

\* !city || typeof city !== 'string' || city.trim().length === 0
invalidCity_untrimmed(city) ==
    \/ city.type \in {"null", "undefined"}
    \/ (city.type = "string" /\ city.chars = <<>>)
    \/ city.type # "string"

invalidCity(city) ==
    \/ city.type \in {"null", "undefined"}
    \/ (city.type = "string" /\ city.chars = <<>>)
    \/ city.type # "string"
    \/ Len(trim(city.chars)) = 0

CityRequired ==
    Error(FALSE, 0, "none",
          "City name is required and must be a non-empty string", 0)

\* the words of the messages that errors carry here; any other message is
\* taken as one word
Words(message) ==
    CASE message = "City name is required and must be a non-empty string" ->
             <<"City", "name", "is", "required", "and", "must", "be", "a",
               "non-empty", "string">>
      [] message = "City name is required" -> <<"City", "name", "is", "required">>
      [] message = "" -> <<>>
      [] OTHER -> <<message>>

\* String.prototype.includes, on the words
includes(message, needle) ==
    \E i \in 0..(Len(Words(message)) - Len(Words(needle))) :
        SubSeq(Words(message), i + 1, i + Len(Words(needle))) = Words(needle)

normalizedCity(city) == toLowerCase(trim(city.chars))

cacheKey(city) == <<"weather:">> \o normalizedCity(city)

\* if (cachedData)
truthy_always(v) == TRUE

truthy(v) == v.kind \notin {"null", "undefined"}

\* transformWeatherData(response.data) and getMockWeatherData(city): the
\* record, told apart from every other by its serial number
WeatherRecord_oneSource(source, city, n) ==
    [kind |-> "weather", source |-> "openweathermap", city |-> city, serial |-> n]

WeatherRecord(source, city, n) ==
    [kind |-> "weather", source |-> source, city |-> city, serial |-> n]

\* what axios.get fails with
FetchErrors(id) ==
    {Error(TRUE, 404, "ERR_BAD_REQUEST", "", id),
     Error(TRUE, 503, "none", "", id),
     Error(FALSE, 0, "ECONNABORTED", "", id)}

NothingFound == [present |-> FALSE, data |-> Null, expiresAt |-> 0, at |-> 0]
Found(c, key) ==
    IF key \in DOMAIN c
    THEN [present |-> TRUE, data |-> c[key].data,
          expiresAt |-> c[key].expiresAt, at |-> now]
    ELSE [present |-> FALSE, data |-> Null, expiresAt |-> 0, at |-> now]

\* getWeatherByCity up to its first await: validate, read the cache, and on a
\* miss start the fetch (fetchWeatherFromAPI: mock data without an API key,
\* the retry executor around axios.get with one)
GetWeatherByCity(t, city) ==
    /\ lpc[t] = "idle"
    /\ lcity' = [lcity EXCEPT ![t] = city]
    /\ IF invalidCity(city)
       THEN /\ lpc' = [lpc EXCEPT ![t] = "failed"]
            /\ lres' = [lres EXCEPT ![t] = CityRequired]
            /\ UNCHANGED <<cache, lfound, serial>>
            /\ UNCHANGED retryVars
       ELSE LET key == cacheKey(city)
                cachedData == get(cache, now, key).ret
            IN  /\ cache' = get(cache, now, key).cache
                /\ lfound' = [lfound EXCEPT ![t] = Found(cache, key)]
                /\ IF truthy(cachedData)
                   THEN /\ lpc' = [lpc EXCEPT ![t] = "done"]
                        /\ lres' = [lres EXCEPT ![t] = cachedData]
                        /\ UNCHANGED serial
                        /\ UNCHANGED retryVars
                   ELSE IF ~config.apiKey
                   THEN /\ lpc' = [lpc EXCEPT ![t] = "storing"]
                        /\ lres' = [lres EXCEPT ![t] =
                               WeatherRecord("mock", normalizedCity(city), serial + 1)]
                        /\ serial' = serial + 1
                        /\ UNCHANGED retryVars
                   ELSE /\ lpc' = [lpc EXCEPT ![t] = "fetching"]
                        /\ retryWithExponentialBackoff(t,
                               [maxAttempts |-> config.maxRetryAttempts,
                                baseDelay |-> FetchBaseDelay,
                                maxDelay |-> FetchMaxDelay])
                        /\ UNCHANGED <<lres, serial>>
    /\ UNCHANGED <<now, last, prev, setInfo, ledger, restVars, config, lwrites>>

\* axios.get answers and fetchWeather returns the transformed record
FetchSucceeds(t) ==
    /\ lpc[t] = "fetching"
    /\ fnResolves(t, WeatherRecord("openweathermap", normalizedCity(lcity[t]),
                                   serial + 1))
    /\ serial' = serial + 1
    /\ UNCHANGED cacheVars
    /\ UNCHANGED <<config, lpc, lcity, lres, lfound, lwrites>>

\* axios.get fails
FetchFails(t, e) ==
    /\ lpc[t] = "fetching"
    /\ fnRejects(t, e)
    /\ UNCHANGED cacheVars
    /\ UNCHANGED lookupVars

\* the backoff sleep of the lookup's fetch is over
BackoffOver(t) ==
    /\ lpc[t] = "fetching"
    /\ wake(t)
    /\ UNCHANGED cacheVars
    /\ UNCHANGED lookupVars

\* the await of fetchWeatherFromAPI returns: cache the result and return it
CacheTheResult_dropped(t) ==
    /\ \/ lpc[t] = "storing"
       \/ (lpc[t] = "fetching" /\ rpc[t] = "resolved")
    /\ LET weatherData == IF lpc[t] = "storing" THEN lres[t] ELSE settled[t]
       IN  /\ cache' = IF cache = EmptyMap THEN cache
                       ELSE set(cache, now, cacheKey(lcity[t]), weatherData,
                                config.cacheTtl)
           /\ lres' = [lres EXCEPT ![t] = weatherData]
    /\ lwrites' = [lwrites EXCEPT ![t] = IF cache = EmptyMap THEN @ ELSE @ + 1]
    /\ lpc' = [lpc EXCEPT ![t] = "done"]
    /\ UNCHANGED <<now, last, prev, setInfo, ledger, restVars, config, lcity, lfound, serial>>
    /\ UNCHANGED retryVars

CacheTheResult(t) ==
    /\ \/ lpc[t] = "storing"
       \/ (lpc[t] = "fetching" /\ rpc[t] = "resolved")
    /\ LET weatherData == IF lpc[t] = "storing" THEN lres[t] ELSE settled[t]
       IN  /\ cache' = set(cache, now, cacheKey(lcity[t]), weatherData,
                           config.cacheTtl)
           /\ lres' = [lres EXCEPT ![t] = weatherData]
    /\ lwrites' = [lwrites EXCEPT ![t] = @ + 1]
    /\ lpc' = [lpc EXCEPT ![t] = "done"]
    /\ UNCHANGED <<now, last, prev, setInfo, ledger, restVars, config, lcity, lfound, serial>>
    /\ UNCHANGED retryVars

\* what reading .message of undefined throws
TypeError ==
    Error(FALSE, 0, "none", "Cannot read properties of undefined", 0)

\* catch (error) { console.error(..., error.message); throw error }
rethrow(error) ==
    IF error.kind \in {"undefined", "null"} THEN TypeError ELSE error

\* the await of fetchWeatherFromAPI throws: log and rethrow
RethrowError_cacheFailure(t) ==
    /\ lpc[t] = "fetching"
    /\ rpc[t] = "rejected"
    /\ lres' = [lres EXCEPT ![t] = rethrow(settled[t])]
    /\ lpc' = [lpc EXCEPT ![t] = "failed"]
    /\ cache' = set(cache, now, cacheKey(lcity[t]), Null, config.cacheTtl)
    /\ UNCHANGED <<now, last, prev, setInfo, ledger, restVars>>
    /\ UNCHANGED retryVars
    /\ UNCHANGED <<config, lcity, lfound, lwrites, serial>>

RethrowError(t) ==
    /\ lpc[t] = "fetching"
    /\ rpc[t] = "rejected"
    /\ lres' = [lres EXCEPT ![t] = rethrow(settled[t])]
    /\ lpc' = [lpc EXCEPT ![t] = "failed"]
    /\ UNCHANGED cacheVars
    /\ UNCHANGED retryVars
    /\ UNCHANGED <<config, lcity, lfound, lwrites, serial>>

\* clearCache
ClearCache ==
    /\ cache' = clear(cache)
    /\ UNCHANGED <<now, last, prev, setInfo, ledger, restVars>>
    /\ UNCHANGED <<retryVars, lookupVars>>

LookupIdle ==
    /\ lpc = [t \in Tasks |-> "idle"]
    /\ lcity = [t \in Tasks |-> NotAString("undefined")]
    /\ lres = [t \in Tasks |-> Undefined]
    /\ lfound = [t \in Tasks |-> NothingFound]
    /\ lwrites = [t \in Tasks |-> 0]
    /\ serial = 0

\* cleanupInterval as it is in the test environment (never assigned), no
\* second store, no request
NoTimer == [interval |-> "undefined", due |-> 0, ticks |-> 0, stopped |-> FALSE]
NoRequest ==
    [pc |-> "idle", city |-> NotAString("undefined"), outcome |-> Undefined,
     status |-> 0, lookups |-> 0]

\* server.js not loaded: no process of the server
NoProcess ==
    [phase |-> "notStarted", server |-> "notOpen", conns |-> EmptyMap,
     signal |-> "none", signalAt |-> 0, forceAt |-> 0, code |-> 0]

RestIdle ==
    /\ timer = NoTimer
    /\ bare = EmptyMap
    /\ http = NoRequest
    /\ proc = NoProcess

\* the instants at which a pending timer is due or a stored entry's expiry
\* test changes its answer
Deadlines ==
    {wakeAt[t] : t \in {u \in Tasks : rpc[u] = "sleeping"}}
    \cup {cache[k].expiresAt : k \in DOMAIN cache}
    \cup {cache[k].expiresAt + 1 : k \in DOMAIN cache}

RetryIdle ==
    /\ opts = [t \in Tasks |-> destructure(EmptyMap)]
    /\ rpc = [t \in Tasks |-> "idle"]
    /\ attempt = [t \in Tasks |-> 0]
    /\ lastError = [t \in Tasks |-> Undefined]
    /\ settled = [t \in Tasks |-> Undefined]
    /\ wakeAt = [t \in Tasks |-> 0]
    /\ calls = [t \in Tasks |-> 0]
    /\ raised = [t \in Tasks |-> Undefined]
    /\ waits = [t \in Tasks |-> <<>>]
    /\ history = [t \in Tasks |-> <<>>]
    /\ verdict = [t \in Tasks |-> "notAsked"]

(* The cache service called by a single client *)

CacheInit ==
    /\ now = 0
    /\ cache = EmptyMap
    /\ last = NoCall
    /\ prev = Earlier(NoCall)
    /\ setInfo = EmptyMap
    /\ ledger = EmptyMap
    /\ RestIdle
    /\ RetryIdle
    /\ LookupIdle
    /\ config = WeatherService(FALSE, Unset, Unset)

CacheNext ==
    \/ \E k \in Keys : CacheGet(k)
    \/ \E k \in Keys, v \in Data, t \in TTLs : CacheSet(k, v, t)
    \/ \E k \in Keys : CacheDelete(k)
    \/ CacheClear
    \/ CacheGetStats
    \/ CacheCleanup
    \/ Tick

SpecCache == CacheInit /\ [][CacheNext]_vars

(* A single call of the executor on an operation that settles each          *)
(* invocation as it pleases                                                 *)

\* the task that makes the call
Caller == 1

Run(options) ==
    /\ rpc[Caller] = "idle"
    /\ retryWithExponentialBackoff(Caller, options)
    /\ UNCHANGED <<cacheVars, lookupVars>>

OperationSucceeds ==
    /\ fnResolves(Caller, Value(calls[Caller]))
    /\ UNCHANGED <<cacheVars, lookupVars>>

OperationFails(e) ==
    /\ fnRejects(Caller, e)
    /\ UNCHANGED <<cacheVars, lookupVars>>

TimerFires ==
    /\ wake(Caller)
    /\ UNCHANGED <<cacheVars, lookupVars>>

\* time passes, up to the next deadline
AdvanceClock ==
    /\ \E d \in Deadlines : d > now /\ now' = d
    /\ UNCHANGED <<cache, last, prev, setInfo, ledger, restVars>>
    /\ UNCHANGED <<retryVars, lookupVars>>

RetryInit == CacheInit

RetryNext ==
    \/ \E o \in Options : Run(o)
    \/ OperationSucceeds
    \/ \E e \in Errors(calls[Caller]) : OperationFails(e)
    \/ TimerFires
    \/ AdvanceClock

SpecRetry == RetryInit /\ [][RetryNext]_vars

\* the pending invocation of the operation settles, one way or the other
OperationSettles ==
    \/ OperationSucceeds
    \/ \E e \in Errors(calls[Caller]) : OperationFails(e)

\* every invocation of the operation settles, time passes and a due timer
\* fires
SpecRetryFair ==
    /\ SpecRetry
    /\ WF_vars(OperationSettles)
    /\ WF_vars(AdvanceClock)
    /\ WF_vars(TimerFires)

(* The cleanup interval of the cache module, beside a client that stores    *)
(* entries                                                                  *)

\* setInterval(..., 5 * 60 * 1000)
CleanupEvery == 5 * 60 * 1000

\* when NODE_ENV is not 'test', loading the module arms the interval
Armed == [interval |-> "armed", due |-> CleanupEvery, ticks |-> 0, stopped |-> FALSE]

\* the duration the weather service stores with by default
StoreTTLs == {DefaultCacheTtlMinutes * 60 * 1000}

\* stopCleanup: if (cleanupInterval) { clearInterval(...); cleanupInterval = null }
stopCleanup_keepTimer(tm) == [tm EXCEPT !.stopped = TRUE]

stopCleanup(tm) ==
    IF tm.interval = "armed"
    THEN [tm EXCEPT !.interval = "null", !.stopped = TRUE]
    ELSE [tm EXCEPT !.stopped = TRUE]

StoreEntry(k, v, t) ==
    /\ cache' = set(cache, now, k, v, t)
    /\ setInfo' = Put(setInfo, k, [at |-> now, ttlMs |-> t])
    /\ UNCHANGED <<now, last, prev, ledger, restVars>>
    /\ UNCHANGED <<retryVars, lookupVars>>

\* the interval's callback runs: cacheService.cleanup()
IntervalFires ==
    /\ timer.interval = "armed"
    /\ now >= timer.due
    /\ timer.ticks < MaxTicks
    /\ cache' = cleanup(cache, now)
    /\ timer' = [timer EXCEPT !.due = @ + CleanupEvery, !.ticks = @ + 1]
    /\ UNCHANGED <<now, last, prev, setInfo, ledger, bare, http, proc>>
    /\ UNCHANGED <<retryVars, lookupVars>>

StopCleanup ==
    /\ timer' = stopCleanup(timer)
    /\ UNCHANGED <<now, cache, last, prev, setInfo, ledger, bare, http, proc>>
    /\ UNCHANGED <<retryVars, lookupVars>>

\* time passes, up to the next expiry or the next run of the interval, as
\* long as a run of the interval is still to come
TimePasses ==
    /\ \E d \in Deadlines \cup {timer.due} :
           d > now /\ d <= MaxTicks * CleanupEvery /\ now' = d
    /\ UNCHANGED <<cache, last, prev, setInfo, ledger, restVars>>
    /\ UNCHANGED <<retryVars, lookupVars>>

TimerInit ==
    /\ now = 0
    /\ cache = EmptyMap
    /\ last = NoCall
    /\ prev = Earlier(NoCall)
    /\ setInfo = EmptyMap
    /\ ledger = EmptyMap
    /\ timer \in {NoTimer, Armed}
    /\ bare = EmptyMap
    /\ http = NoRequest
    /\ proc = NoProcess
    /\ RetryIdle
    /\ LookupIdle
    /\ config = WeatherService(FALSE, Unset, Unset)

TimerNext ==
    \/ \E k \in Keys, v \in Data, t \in StoreTTLs : StoreEntry(k, v, t)
    \/ IntervalFires
    \/ StopCleanup
    \/ TimePasses

SpecTimer == TimerInit /\ [][TimerNext]_vars

\* a timer that is due fires, and time does not stand still
SpecTimerFair ==
    SpecTimer /\ WF_vars(IntervalFires) /\ WF_vars(TimePasses)

(* One sequence of calls applied to two stores: `cache`, on which cleanup() *)
(* also runs between the calls, and `bare`, on which it never runs          *)

BothSet(k, v, t) ==
    /\ cache' = set(cache, now, k, v, t)
    /\ bare' = set(bare, now, k, v, t)
    /\ setInfo' = Put(setInfo, k, [at |-> now, ttlMs |-> t])
    /\ Record(Call("set", k, v, Undefined, {}))
    /\ UNCHANGED <<now, ledger, timer, http, proc>>
    /\ UNCHANGED <<retryVars, lookupVars>>

BothGet(k) ==
    /\ cache' = get(cache, now, k).cache
    /\ bare' = get(bare, now, k).cache
    /\ Record(Call("get", k, Undefined, get(cache, now, k).ret, {}))
    /\ UNCHANGED <<now, setInfo, ledger, timer, http, proc>>
    /\ UNCHANGED <<retryVars, lookupVars>>

BothDelete(k) ==
    /\ cache' = delete(cache, k)
    /\ bare' = delete(bare, k)
    /\ Record(Call("delete", k, Undefined, Undefined, {}))
    /\ UNCHANGED <<now, setInfo, ledger, timer, http, proc>>
    /\ UNCHANGED <<retryVars, lookupVars>>

BothClear ==
    /\ cache' = clear(cache)
    /\ bare' = clear(bare)
    /\ Record(Call("clear", <<>>, Undefined, Undefined, {}))
    /\ UNCHANGED <<now, setInfo, ledger, timer, http, proc>>
    /\ UNCHANGED <<retryVars, lookupVars>>

\* cleanup() runs on `cache` only
CleanupRuns ==
    /\ cache' = cleanup(cache, now)
    /\ Record(Call("cleanup", <<>>, Undefined, Undefined, {}))
    /\ UNCHANGED <<now, setInfo, ledger, restVars>>
    /\ UNCHANGED <<retryVars, lookupVars>>

TwinInit == CacheInit

TwinNext ==
    \/ \E k \in Keys, v \in Data, t \in TTLs : BothSet(k, v, t)
    \/ \E k \in Keys : BothGet(k)
    \/ \E k \in Keys : BothDelete(k)
    \/ BothClear
    \/ CleanupRuns
    \/ Tick

SpecTwin == TwinInit /\ [][TwinNext]_vars

(* Concurrent calls of the executor, each task with its own operation and   *)
(* its own options                                                          *)

RunOptions ==
    {[maxAttempts |-> m, baseDelay |-> b, maxDelay |-> 3] :
        m \in {1, 3}, b \in {1, 2}}

\* what the operation of task t resolves with and fails with on its j-th
\* invocation: the message names the operation
ValueOf(t, j) == [kind |-> "value", id |-> j, from |-> t]
ErrorsOf(t, j) ==
    {Error(TRUE, 503, "none", ToString(t), j),
     Error(TRUE, 404, "ERR_BAD_REQUEST", ToString(t), j)}

CallRun(t, options) ==
    /\ rpc[t] = "idle"
    /\ retryWithExponentialBackoff(t, options)
    /\ UNCHANGED <<cacheVars, lookupVars>>

CallSucceeds(t) ==
    /\ fnResolves(t, ValueOf(t, calls[t]))
    /\ UNCHANGED <<cacheVars, lookupVars>>

CallFails(t, e) ==
    /\ fnRejects(t, e)
    /\ UNCHANGED <<cacheVars, lookupVars>>

CallWakes(t) ==
    /\ wake(t)
    /\ UNCHANGED <<cacheVars, lookupVars>>

RunsInit == CacheInit

RunsNext ==
    \/ \E t \in Tasks, o \in RunOptions : CallRun(t, o)
    \/ \E t \in Tasks : CallSucceeds(t)
    \/ \E t \in Tasks : \E e \in ErrorsOf(t, calls[t]) : CallFails(t, e)
    \/ \E t \in Tasks : CallWakes(t)
    \/ AdvanceClock

SpecRuns == RunsInit /\ [][RunsNext]_vars

(* Concurrent lookups on the weather service *)

Configs ==
    {WeatherService(k, m, r) :
        k \in BOOLEAN, m \in {Unset, Env(1)}, r \in {Unset, Env(2)}}

LookupInit ==
    /\ now = 0
    /\ cache = EmptyMap
    /\ last = NoCall
    /\ prev = Earlier(NoCall)
    /\ setInfo = EmptyMap
    /\ ledger = EmptyMap
    /\ RestIdle
    /\ RetryIdle
    /\ LookupIdle
    /\ config \in Configs

LookupNext ==
    \/ \E t \in Tasks, city \in Cities : GetWeatherByCity(t, city)
    \/ \E t \in Tasks : FetchSucceeds(t)
    \/ \E t \in Tasks : \E e \in FetchErrors(calls[t]) : FetchFails(t, e)
    \/ \E t \in Tasks : BackoffOver(t)
    \/ \E t \in Tasks : CacheTheResult(t)
    \/ \E t \in Tasks : RethrowError(t)
    \/ ClearCache
    \/ AdvanceClock

SpecLookup == LookupInit /\ [][LookupNext]_vars

(* The lookups beside the other users of the shared store: clearCache, the  *)
(* statistics endpoint and the cleanup interval                             *)

\* getCacheStats: cacheService.getStats()
GetCacheStats ==
    /\ last' = Call("getStats", <<>>, Undefined, getStats(cache, now),
                    validKeys(cache, now))
    /\ UNCHANGED <<now, cache, prev, setInfo, ledger, restVars>>
    /\ UNCHANGED <<retryVars, lookupVars>>

\* the interval's callback: cacheService.cleanup()
PeriodicCleanup ==
    /\ cache' = cleanup(cache, now)
    /\ UNCHANGED <<now, last, prev, setInfo, ledger, restVars>>
    /\ UNCHANGED <<retryVars, lookupVars>>

\* the lookups are for valid cities, two of them spellings of one city; the
\* service runs with and without an API key, with MAX_RETRY_ATTEMPTS=2
SharedCities == {c \in Cities : ~invalidCity(c)}

SharedInit ==
    /\ now = 0
    /\ cache = EmptyMap
    /\ last = NoCall
    /\ prev = Earlier(NoCall)
    /\ setInfo = EmptyMap
    /\ ledger = EmptyMap
    /\ RestIdle
    /\ RetryIdle
    /\ LookupIdle
    /\ config \in {WeatherService(k, Unset, Env(2)) : k \in BOOLEAN}

SharedNext ==
    \/ \E t \in Tasks, city \in SharedCities : GetWeatherByCity(t, city)
    \/ \E t \in Tasks : FetchSucceeds(t)
    \/ \E t \in Tasks : \E e \in FetchErrors(calls[t]) : FetchFails(t, e)
    \/ \E t \in Tasks : BackoffOver(t)
    \/ \E t \in Tasks : CacheTheResult(t)
    \/ \E t \in Tasks : RethrowError(t)
    \/ ClearCache
    \/ GetCacheStats
    \/ PeriodicCleanup
    \/ AdvanceClock

SpecShared == SharedInit /\ [][SharedNext]_vars

(* clearCache and the cleanup interval while lookups are in flight; the     *)
(* ledger notes the lookups that were awaiting their fetch when one ran      *)

InFlight == {t \in Tasks : lpc[t] \in {"fetching", "storing"}}

Note(l, S, how) == [t \in (DOMAIN l) \cup S |-> IF t \in S THEN how ELSE l[t]]

ClearWhileInFlight ==
    /\ cache' = clear(cache)
    /\ ledger' = Note(ledger, InFlight, "cleared")
    /\ UNCHANGED <<now, last, prev, setInfo, restVars>>
    /\ UNCHANGED <<retryVars, lookupVars>>

CleanupWhileInFlight ==
    /\ cache' = cleanup(cache, now)
    /\ ledger' = Note(ledger, InFlight \ DOMAIN ledger, "cleaned")
    /\ UNCHANGED <<now, last, prev, setInfo, restVars>>
    /\ UNCHANGED <<retryVars, lookupVars>>

InFlightInit == SharedInit

InFlightNext ==
    \/ \E t \in Tasks, city \in SharedCities : GetWeatherByCity(t, city)
    \/ \E t \in Tasks : FetchSucceeds(t)
    \/ \E t \in Tasks : \E e \in FetchErrors(calls[t]) : FetchFails(t, e)
    \/ \E t \in Tasks : BackoffOver(t)
    \/ \E t \in Tasks : CacheTheResult(t)
    \/ \E t \in Tasks : RethrowError(t)
    \/ ClearWhileInFlight
    \/ CleanupWhileInFlight
    \/ AdvanceClock

SpecInFlight == InFlightInit /\ [][InFlightNext]_vars

(* One lookup with an API key, for each setting of MAX_RETRY_ATTEMPTS and    *)
(* CACHE_TTL_MINUTES                                                        *)

\* the integers the two variables are set to
RetrySettings == {Unset, Env(-1), Env(0), Env(1), Env(2), Env(6)}
TtlSettings == {Unset, Env(-1), Env(0), Env(1), Env(5)}

FetchInit ==
    /\ now = 0
    /\ cache = EmptyMap
    /\ last = NoCall
    /\ prev = Earlier(NoCall)
    /\ setInfo = EmptyMap
    /\ ledger = EmptyMap
    /\ RestIdle
    /\ RetryIdle
    /\ LookupIdle
    /\ config \in {WeatherService(TRUE, m, r) :
                       m \in TtlSettings, r \in RetrySettings}

FetchNext ==
    \/ \E city \in SharedCities : GetWeatherByCity(Caller, city)
    \/ FetchSucceeds(Caller)
    \/ \E e \in FetchErrors(calls[Caller]) : FetchFails(Caller, e)
    \/ BackoffOver(Caller)
    \/ CacheTheResult(Caller)
    \/ RethrowError(Caller)
    \/ AdvanceClock

SpecFetch == FetchInit /\ [][FetchNext]_vars

(* The controller of GET /weather around the lookup service                 *)

\* what req.query.city can be: absent, empty, blank, a city, another, or
\* (the parameter given twice) an array
Queries ==
    {NotAString("undefined"), Str(<<>>), Str(<<" ">>), Str(<<"L", "A">>),
     Str(<<"n", "y">>), NotAString("object")}

\* !city
notCity(city) ==
    \/ city.type \in {"null", "undefined"}
    \/ (city.type = "string" /\ city.chars = <<>>)

\* what the awaited lookup can reject with: the validation error, and errors
\* of the HTTP client with or without a response, with any code; the
\* controller is also run against a lookup service that rejects with
\* whatever error it is told to, so each shape comes with either message
Rejections ==
    {CityRequired}
    \cup Errors(0)
    \cup {[e EXCEPT !.message = "City name is required"] : e \in Errors(0)}

\* the catch block of getWeather: the first test that holds decides
statusFor_codeFirst(error) ==
    IF includes(error.message, "City name is required") THEN 400
    ELSE IF error.code = "ECONNABORTED" \/ error.code = "ENOTFOUND" THEN 503
    ELSE IF error.response /\ error.status = 404 THEN 404
    ELSE IF error.response /\ error.status = 401 THEN 500
    ELSE 500

statusFor(error) ==
    IF includes(error.message, "City name is required") THEN 400
    ELSE IF error.response /\ error.status = 404 THEN 404
    ELSE IF error.response /\ error.status = 401 THEN 500
    ELSE IF error.code = "ECONNABORTED" \/ error.code = "ENOTFOUND" THEN 503
    ELSE 500

\* getWeather up to its await
GetWeather(city) ==
    /\ http.pc = "idle"
    /\ IF notCity(city)
       THEN http' = [pc |-> "responded", city |-> city, outcome |-> Undefined,
                     status |-> 400, lookups |-> 0]
       ELSE http' = [pc |-> "awaiting", city |-> city, outcome |-> Undefined,
                     status |-> 0, lookups |-> 1]
    /\ UNCHANGED <<now, cache, last, prev, setInfo, ledger, timer, bare, proc>>
    /\ UNCHANGED <<retryVars, lookupVars>>

\* the lookup resolves: 200 with the data
LookupResolves ==
    /\ http.pc = "awaiting"
    /\ ~invalidCity(http.city)
    /\ http' = [http EXCEPT !.pc = "responded",
                            !.outcome = WeatherRecord("openweathermap",
                                            normalizedCity(http.city), 1),
                            !.status = 200]
    /\ UNCHANGED <<now, cache, last, prev, setInfo, ledger, timer, bare, proc>>
    /\ UNCHANGED <<retryVars, lookupVars>>

\* the lookup rejects: for an invalid city with the validation error
LookupRejects(error) ==
    /\ http.pc = "awaiting"
    /\ invalidCity(http.city) => error = CityRequired
    /\ http' = [http EXCEPT !.pc = "responded", !.outcome = error,
                            !.status = statusFor(error)]
    /\ UNCHANGED <<now, cache, last, prev, setInfo, ledger, timer, bare, proc>>
    /\ UNCHANGED <<retryVars, lookupVars>>

\* the response is sent; the next request comes
NextRequest ==
    /\ http.pc = "responded"
    /\ http' = NoRequest
    /\ UNCHANGED <<now, cache, last, prev, setInfo, ledger, timer, bare, proc>>
    /\ UNCHANGED <<retryVars, lookupVars>>

ControllerInit == CacheInit

ControllerNext ==
    \/ \E city \in Queries : GetWeather(city)
    \/ LookupResolves
    \/ \E error \in Rejections : LookupRejects(error)
    \/ NextRequest

SpecController == ControllerInit /\ [][ControllerNext]_vars

(* The server process: app.js is loaded by server.js, the server listens,   *)
(* connections come and go, a signal arrives                                *)

\* setTimeout(..., 10000) in gracefulShutdown
ForceAfter == 10000

\* the listeners of SIGTERM and of SIGINT, in the order they were registered:
\* server.js requires app.js, which registers its own, before it registers
\* gracefulShutdown
Listeners == <<"app.js", "server.js">>

\* process.exit(code): nothing runs after it
exit(p, code) ==
    IF p.phase = "exited" THEN p
    ELSE [p EXCEPT !.phase = "exited", !.code = code]

\* gracefulShutdown: server.close(callback) stops accepting and calls back
\* when the connections have ended; a timer forces the exit 10 seconds later
gracefulShutdown(p, n) ==
    [p EXCEPT !.server = IF @ = "listening" THEN "closing" ELSE @,
              !.forceAt = n + ForceAfter]

\* one listener of the signal runs
handle(listener, p, n) ==
    CASE listener = "app.js" -> exit(p, 0)
      [] listener = "server.js" -> gracefulShutdown(p, n)

\* process.emit(signal): the listeners run one after the other, as long as
\* the process lives
RECURSIVE emit(_, _, _)
emit(listeners, p, n) ==
    IF listeners = <<>> \/ p.phase = "exited" THEN p
    ELSE emit(Tail(listeners), handle(Head(listeners), p, n), n)

Connections == 1..MaxConnections

ServerFrame ==
    /\ UNCHANGED <<now, cache, last, prev, setInfo, ledger, timer, bare, http>>
    /\ UNCHANGED <<retryVars, lookupVars>>

\* app.listen succeeded
Listening ==
    /\ proc.phase = "starting"
    /\ proc' = [proc EXCEPT !.phase = "running", !.server = "listening"]
    /\ ServerFrame

\* server.on('error'): listen failed with EACCES or EADDRINUSE
ListenFails(code) ==
    /\ proc.phase = "starting"
    /\ code \in {"EACCES", "EADDRINUSE"}
    /\ proc' = exit(proc, 1)
    /\ ServerFrame

Connect(c) ==
    /\ proc.phase = "running"
    /\ proc.server = "listening"
    /\ c \notin DOMAIN proc.conns
    /\ proc' = [proc EXCEPT !.conns = Put(@, c, "idle")]
    /\ ServerFrame

RequestArrives(c) ==
    /\ proc.phase = "running"
    /\ c \in DOMAIN proc.conns
    /\ proc.conns[c] = "idle"
    /\ proc' = [proc EXCEPT !.conns = Put(@, c, "busy")]
    /\ ServerFrame

ResponseSent(c) ==
    /\ proc.phase = "running"
    /\ c \in DOMAIN proc.conns
    /\ proc.conns[c] = "busy"
    /\ proc' = [proc EXCEPT !.conns = Put(@, c, "idle")]
    /\ ServerFrame

Disconnect(c) ==
    /\ proc.phase = "running"
    /\ c \in DOMAIN proc.conns
    /\ proc.conns[c] = "idle"
    /\ proc' = [proc EXCEPT !.conns = Remove(@, {c})]
    /\ ServerFrame

\* SIGTERM or SIGINT is delivered
Signal(sig) ==
    /\ proc.phase \in {"starting", "running"}
    /\ proc' = emit(Listeners,
                    [proc EXCEPT !.signal = sig, !.signalAt = now], now)
    /\ ServerFrame

ServerTick ==
    /\ proc.phase \in {"starting", "running"}
    /\ now < MaxNow
    /\ now' = now + 1
    /\ UNCHANGED <<cache, last, prev, setInfo, ledger, restVars>>
    /\ UNCHANGED <<retryVars, lookupVars>>

ServerInit ==
    /\ now = 0
    /\ cache = EmptyMap
    /\ last = NoCall
    /\ prev = Earlier(NoCall)
    /\ setInfo = EmptyMap
    /\ ledger = EmptyMap
    /\ timer = NoTimer
    /\ bare = EmptyMap
    /\ http = NoRequest
    /\ proc = [NoProcess EXCEPT !.phase = "starting"]
    /\ RetryIdle
    /\ LookupIdle
    /\ config = WeatherService(FALSE, Unset, Unset)

ServerNext ==
    \/ Listening
    \/ \E code \in {"EACCES", "EADDRINUSE"} : ListenFails(code)
    \/ \E c \in Connections : Connect(c)
    \/ \E c \in Connections : RequestArrives(c)
    \/ \E c \in Connections : ResponseSent(c)
    \/ \E c \in Connections : Disconnect(c)
    \/ \E sig \in {"SIGTERM", "SIGINT"} : Signal(sig)
    \/ ServerTick

SpecServer == ServerInit /\ [][ServerNext]_vars

(* Tasks that run concurrently and call the cache service, each on a key of *)
(* its own.  No method of the service awaits, so each call runs to          *)
(* completion and the tasks interleave whole calls; the interval timer set  *)
(* up with the singleton calls cleanup() between them.                      *)

\* the key only task t uses: "weather:" and a city of its own
TaskKey(t) == <<"weather:", ToString(t)>>

\* what the ledger says of the keys in S after a call that removed them
Strike(l, S, how) == [k \in DOMAIN l |-> IF k \in S THEN how ELSE l[k]]

TaskSet(t, v, ttl) ==
    /\ cache' = set(cache, now, TaskKey(t), v, ttl)
    /\ ledger' = Put(ledger, TaskKey(t), "stored")
    /\ UNCHANGED <<now, last, prev, setInfo, restVars>>
    /\ UNCHANGED <<retryVars, lookupVars>>

TaskGet(t) ==
    /\ cache' = get(cache, now, TaskKey(t)).cache
    /\ ledger' = Strike(ledger, DOMAIN cache \ DOMAIN cache', "reclaimed")
    /\ UNCHANGED <<now, last, prev, setInfo, restVars>>
    /\ UNCHANGED <<retryVars, lookupVars>>

TaskDelete(t) ==
    /\ cache' = delete(cache, TaskKey(t))
    /\ ledger' = Strike(ledger, DOMAIN cache \cap {TaskKey(t)}, "deleted")
    /\ UNCHANGED <<now, last, prev, setInfo, restVars>>
    /\ UNCHANGED <<retryVars, lookupVars>>

TaskClear ==
    /\ cache' = clear(cache)
    /\ ledger' = Strike(ledger, DOMAIN cache, "cleared")
    /\ UNCHANGED <<now, last, prev, setInfo, restVars>>
    /\ UNCHANGED <<retryVars, lookupVars>>

\* the setInterval callback
CleanupTimer ==
    /\ cache' = cleanup(cache, now)
    /\ ledger' = Strike(ledger, DOMAIN cache \ DOMAIN cache', "reclaimed")
    /\ UNCHANGED <<now, last, prev, setInfo, restVars>>
    /\ UNCHANGED <<retryVars, lookupVars>>

TasksInit == CacheInit

TasksNext ==
    \/ \E t \in Tasks, v \in Data, ttl \in TTLs : TaskSet(t, v, ttl)
    \/ \E t \in Tasks : TaskGet(t)
    \/ \E t \in Tasks : TaskDelete(t)
    \/ TaskClear
    \/ CleanupTimer
    \/ Tick

SpecTasks == TasksInit /\ [][TasksNext]_vars

-----------------------------------------------------------------------------
(* Claims about the cache *)

\* C1: for every key k, value v and ttlMs t > 0, a get(k) issued immediately
\* after set(k, v, t), at the same instant and with no call in between,
\* returns v.
C1_GetAfterSet ==
    (/\ last.op = "get" /\ prev.op = "set"
     /\ last.key = prev.key /\ last.at = prev.at
     /\ setInfo[last.key].ttlMs > 0)
    => last.ret = prev.data

C1_Witness ==
    /\ last.op = "get" /\ prev.op = "set"
    /\ last.key = prev.key /\ last.at = prev.at
    /\ last.at > 0
    /\ setInfo[last.key].ttlMs > 0
    /\ last.ret \in Data

\* C2: for every key k and ttlMs t >= 0, once the time elapsed since the
\* latest set(k, v, t) is >= t, get(k) returns null and a following
\* getStats() does not count k among validEntries; with t = 0 the very next
\* get(k) returns null.
C2_AbsentOnceTtlElapsed ==
    /\ (/\ last.op = "get"
        /\ last.key \in DOMAIN setInfo
        /\ setInfo[last.key].ttlMs >= 0
        /\ last.at - setInfo[last.key].at >= setInfo[last.key].ttlMs)
       => last.ret = Null
    /\ (/\ last.op = "getStats" /\ prev.op = "get"
        /\ prev.key \in DOMAIN setInfo
        /\ setInfo[prev.key].ttlMs >= 0
        /\ prev.at - setInfo[prev.key].at >= setInfo[prev.key].ttlMs)
       => prev.key \notin last.valid

\* the latest set on key k has run out at instant n: more than its ttlMs has
\* passed since it was made (the test the service applies, see C2 for the
\* instant at which exactly ttlMs has passed)
Lapsed(k, n) == n > setInfo[k].at + setInfo[k].ttlMs

\* the entries of the keys in S are the same in stores c and d
SameEntries(c, d, S) ==
    \A k \in S : (k \in DOMAIN c <=> k \in DOMAIN d)
                   /\ (k \in DOMAIN c => c[k] = d[k])

ZeroStats ==
    [kind |-> "stats", totalEntries |-> 0, validEntries |-> 0,
     expiredEntries |-> 0]

\* C14: whatever the store holds (valid entries, expired entries or both),
\* after clear() a getStats() returns {0, 0, 0} and get on every key that was
\* stored returns null.
C14_ClearEmpties ==
    [][CacheClear =>
          /\ getStats(cache', now') = ZeroStats
          /\ \A k \in DOMAIN cache : get(cache', now', k).ret = Null]_vars

C14_Witness ==
    /\ last.op = "getStats" /\ prev.op = "clear"
    /\ last.ret = ZeroStats
    /\ DOMAIN setInfo = Keys
    /\ \E k \in Keys : Lapsed(k, prev.at)
    /\ \E k \in Keys : ~Lapsed(k, prev.at)

\* C15: every getStats() returns totalEntries = validEntries + expiredEntries
\* = the number of entries physically in the store; an entry that has run out
\* and was not yet removed is counted in totalEntries and in expiredEntries;
\* getStats removes or modifies no entry.
C15_StatsAddUp ==
    /\ [](last.op = "getStats" =>
            /\ last.ret.totalEntries =
                   last.ret.validEntries + last.ret.expiredEntries
            /\ last.ret.totalEntries = Cardinality(DOMAIN cache)
            /\ last.ret.expiredEntries =
                   Cardinality({k \in DOMAIN cache : Lapsed(k, last.at)})
            /\ last.valid = {k \in DOMAIN cache : ~Lapsed(k, last.at)})
    /\ [][CacheGetStats => cache' = cache]_vars

C15_Witness ==
    /\ last.op = "getStats"
    /\ last.ret.totalEntries = 2
    /\ last.ret.validEntries = 1
    /\ last.ret.expiredEntries = 1
    /\ \E k \in DOMAIN cache : Lapsed(k, last.at) /\ setInfo[k].ttlMs > 0

\* C16: cleanup() removes exactly the entries that have run out at the time of
\* the call and leaves every other entry as it was (get on such a key still
\* returns its value); a second cleanup at the same instant changes nothing,
\* and getStats returns the same after both, with expiredEntries = 0.
C16_CleanupExactAndIdempotent ==
    [][CacheCleanup =>
          /\ DOMAIN cache' = {k \in DOMAIN cache : ~Lapsed(k, now)}
          /\ SameEntries(cache, cache', DOMAIN cache')
          /\ \A k \in DOMAIN cache' :
                 get(cache', now', k) = [ret |-> cache[k].data, cache |-> cache']
          /\ cleanup(cache', now') = cache'
          /\ getStats(cleanup(cache', now'), now') = getStats(cache', now')
          /\ getStats(cache', now').expiredEntries = 0]_vars

C16_Witness ==
    /\ last.op = "cleanup" /\ prev.op = "set"
    /\ last.at > prev.at
    /\ setInfo[prev.key].ttlMs = 0
    /\ prev.key \notin DOMAIN cache
    /\ \E k \in DOMAIN cache : ~Lapsed(k, last.at) /\ setInfo[k].ttlMs > 0

\* C17: get(k) leaves the store unchanged when k is absent or its entry has
\* not run out; when k's entry has run out, get(k) returns null and removes
\* exactly that entry, leaving every other key untouched; for an unknown key
\* get returns null.
C17_GetFrame ==
    [][\A k \in Keys : CacheGet(k) =>
          /\ k \notin DOMAIN cache => (last'.ret = Null /\ cache' = cache)
          /\ (k \in DOMAIN cache /\ ~Lapsed(k, now)) =>
                 (last'.ret = cache[k].data /\ cache' = cache)
          /\ (k \in DOMAIN cache /\ Lapsed(k, now)) =>
                 /\ last'.ret = Null
                 /\ DOMAIN cache' = DOMAIN cache \ {k}
                 /\ SameEntries(cache, cache', Keys \ {k})]_vars

C17_Witness ==
    /\ last.op = "get" /\ prev.op = "set"
    /\ last.key = prev.key
    /\ setInfo[last.key].ttlMs > 0
    /\ Lapsed(last.key, last.at)
    /\ last.ret = Null
    /\ last.key \notin DOMAIN cache
    /\ \E k \in DOMAIN cache : Lapsed(k, last.at)

\* C18: set(k, v2, t2) on a key that already has an entry, valid or run out,
\* replaces it wholly: afterwards the store holds for k the value v2 with
\* expiresAt = (time of this set) + t2, whatever the earlier value and expiry
\* were, and the entries of the other keys are unchanged.
C18_SetReplaces ==
    [][\A k \in Keys, v \in Data, t \in TTLs :
          (CacheSet(k, v, t) /\ k \in DOMAIN cache) =>
              /\ DOMAIN cache' = DOMAIN cache
              /\ cache'[k] = [data |-> v, expiresAt |-> now + t]
              /\ SameEntries(cache, cache', Keys \ {k})]_vars

C18_Witness ==
    /\ last.op = "set" /\ prev.op = "set"
    /\ last.key = prev.key
    /\ last.at > prev.at
    /\ last.data # prev.data
    /\ setInfo[last.key].ttlMs = 0
    /\ cache[last.key] = [data |-> last.data, expiresAt |-> last.at]
    /\ DOMAIN cache = Keys

\* C19: after delete(k), get(k) returns null; deleting an absent key, or
\* deleting a second time, leaves the store as it is; the entries of the other
\* keys are unchanged.
C19_DeleteIdempotent ==
    [][\A k \in Keys : CacheDelete(k) =>
          /\ DOMAIN cache' = DOMAIN cache \ {k}
          /\ get(cache', now', k) = [ret |-> Null, cache |-> cache']
          /\ k \notin DOMAIN cache => cache' = cache
          /\ delete(cache', k) = cache'
          /\ SameEntries(cache, cache', Keys \ {k})]_vars

C19_Witness ==
    /\ last.op = "delete" /\ prev.op = "delete"
    /\ last.key = prev.key
    /\ last.key \in DOMAIN setInfo
    /\ last.key \notin DOMAIN cache
    /\ \E k \in DOMAIN cache : k # last.key

\* C36: get, getStats and cleanup apply one and the same expiry test: at any
\* instant a key that is physically present is counted in validEntries
\* exactly when get on that key at that instant would return its value, and
\* cleanup removes exactly the entries getStats would count as expired (the
\* entries get would remove).
Served(k) == get(cache, now, k).ret = cache[k].data

C36_OneExpiryTest ==
    /\ validKeys(cache, now) = {k \in DOMAIN cache : Served(k)}
    /\ getStats(cache, now).validEntries =
           Cardinality({k \in DOMAIN cache : Served(k)})
    /\ getStats(cache, now).expiredEntries =
           Cardinality(DOMAIN cache \ DOMAIN cleanup(cache, now))
    /\ DOMAIN cleanup(cache, now) = {k \in DOMAIN cache : Served(k)}
    /\ \A k \in DOMAIN cache :
           k \in DOMAIN cleanup(cache, now) <=> get(cache, now, k).cache = cache
    /\ last.op = "getStats" /\ last.at = now /\ prev.op = "get" /\ prev.at = now
           => last.valid = {k \in DOMAIN cache : Served(k)}

C36_Witness ==
    /\ last.op = "getStats" /\ last.at = now
    /\ prev.op = "get" /\ prev.at = now
    /\ last.ret.validEntries = 1
    /\ last.ret.expiredEntries = 1
    /\ \E k \in DOMAIN cache : cache[k].expiresAt = now

\* C22: set(k, v, ttlMs) with a negative ttlMs is rejected: it raises and
\* leaves the store unchanged, so that an existing entry of k is not replaced
\* and no entry is created.
C22_NegativeTtlRejected ==
    [][\A k \in Keys, v \in Data, t \in {x \in TTLs : x < 0} :
          CacheSet(k, v, t) =>
              (cache' = cache /\ last'.ret.kind = "error")]_vars

-----------------------------------------------------------------------------
(* Claims about the retry executor *)

\* the first n invocations of the operation all failed with a retryable error
RetryablePrefix(t, n) ==
    /\ Len(history[t]) >= n
    /\ \A i \in 1..n : history[t][i] = "retryable"

Pending(t) == rpc[t] \in {"awaitFn", "sleeping"}

\* C3: for every j with 1 <= j <= maxAttempts, when the operation fails with
\* retryable errors on its first j-1 invocations the call goes on to invocation
\* j, and when that one succeeds the call resolves with its value after exactly
\* j invocations.
C3_SucceedsOnJth ==
    \A t \in Tasks : \A j \in 1..opts[t].maxAttempts :
        (rpc[t] # "idle" /\ RetryablePrefix(t, j - 1)) =>
            /\ Len(history[t]) = j - 1 =>
                   (Pending(t) /\ calls[t] \in {j - 1, j})
            /\ (Len(history[t]) >= j /\ history[t][j] = "ok") =>
                   /\ rpc[t] = "resolved"
                   /\ settled[t] = Value(j)
                   /\ calls[t] = j
                   /\ Len(history[t]) = j

C3_Witness ==
    /\ opts[Caller].maxAttempts = 3
    /\ history[Caller] = <<"retryable", "retryable", "ok">>
    /\ rpc[Caller] = "resolved"
    /\ calls[Caller] = 3

\* C4: for every N >= 1, an operation that always fails with a retryable error,
\* run with maxAttempts = N, is invoked exactly N times and the call rejects
\* with the error of the N-th invocation.
C4_ExhaustsBudget ==
    \A t \in Tasks :
        (/\ rpc[t] # "idle"
         /\ opts[t].maxAttempts >= 1
         /\ RetryablePrefix(t, Len(history[t]))) =>
            /\ Len(history[t]) <= opts[t].maxAttempts
            /\ Len(history[t]) < opts[t].maxAttempts => Pending(t)
            /\ Len(history[t]) = opts[t].maxAttempts =>
                   /\ rpc[t] = "rejected"
                   /\ calls[t] = opts[t].maxAttempts
                   /\ settled[t] = raised[t]
                   /\ settled[t].kind = "error"
                   /\ settled[t].id = opts[t].maxAttempts

C4_Witness ==
    /\ opts[Caller].maxAttempts = 3
    /\ history[Caller] = <<"retryable", "retryable", "retryable">>
    /\ rpc[Caller] = "rejected"
    /\ settled[Caller].id = 3

\* C5: when shouldRetry(error) returns false the operation is not invoked
\* again; an operation whose first error is classified non-retryable is invoked
\* exactly once for every maxAttempts >= 1, and the call rejects with that
\* error.
C5_NoRetryOnFalse ==
    \A t \in Tasks :
        /\ verdict[t] = "false" =>
               /\ rpc[t] = "rejected"
               /\ calls[t] = Len(history[t])
               /\ settled[t] = raised[t]
        /\ (/\ opts[t].maxAttempts >= 1
            /\ Len(history[t]) >= 1
            /\ history[t][1] = "nonretryable") =>
               /\ rpc[t] = "rejected"
               /\ calls[t] = 1
               /\ settled[t] = raised[t]
               /\ settled[t].id = 1

C5_Witness ==
    /\ opts[Caller].maxAttempts = 3
    /\ verdict[Caller] = "false"
    /\ rpc[Caller] = "rejected"
    /\ calls[Caller] = 1

\* C6: the backoff wait before attempt i, for every i >= 2, is
\* min(baseDelay * 2^(i-2), maxDelay): it never exceeds maxDelay, also when
\* baseDelay > maxDelay, and every attempt after the first is preceded by one.
C6_BackoffWaits ==
    \A t \in Tasks :
        /\ \A i \in 2..(Len(waits[t]) + 1) :
               /\ waits[t][i - 1] =
                      Min(opts[t].baseDelay * 2 ^ (i - 2), opts[t].maxDelay)
               /\ waits[t][i - 1] <= opts[t].maxDelay
        /\ calls[t] >= 2 => Len(waits[t]) >= calls[t] - 1

C6_Witness ==
    /\ calls[Caller] = 3
    /\ opts[Caller].baseDelay = 2
    /\ opts[Caller].maxDelay = 3
    /\ waits[Caller] = <<2, 3>>

\* C7 as stated: whenever the call rejects, the rejection value is the error
\* raised by the last invocation of the operation.
C7_AlwaysLastError ==
    \A t \in Tasks :
        rpc[t] = "rejected" =>
            /\ calls[t] >= 1
            /\ settled[t] = raised[t]

\* C7: whenever the call rejects after at least one invocation, and
\* shouldRetry did not itself throw, the rejection value is the error raised
\* by the last invocation of the operation, unmodified.
C7_LastErrorUnmodified ==
    \A t \in Tasks :
        (rpc[t] = "rejected" /\ calls[t] >= 1 /\ verdict[t] # "raise") =>
            /\ settled[t] = raised[t]
            /\ settled[t].kind = "error"
            /\ settled[t].id = calls[t]

C7_Witness ==
    /\ rpc[Caller] = "rejected"
    /\ calls[Caller] = 2
    /\ verdict[Caller] = "false"
    /\ settled[Caller].id = 2
    /\ settled[Caller].status = 404

\* the most recent invocation of the operation failed
LastFailed(t) ==
    /\ Len(history[t]) >= 1
    /\ history[t][Len(history[t])] # "ok"
    /\ calls[t] = Len(history[t])

ServerSide(e) == e.response /\ e.status >= 500
TimedOut(e) == e.code = "ECONNABORTED"
NetworkFailure(e) == e.code \in {"ENOTFOUND", "ECONNRESET"}
ClientError(e) == e.response /\ e.status >= 400 /\ e.status <= 499

\* C8: the default shouldRetry returns true exactly for a server-side failure
\* (status >= 500), a timeout (ECONNABORTED) or a network failure (ENOTFOUND,
\* ECONNRESET), and false for every other error; the call retries on true and
\* rejects on false.
C8_DefaultClassifier ==
    \A t \in Tasks :
        (opts[t].shouldRetry = "default" /\ verdict[t] # "notAsked") =>
            /\ verdict[t] \in {"true", "false"}
            /\ verdict[t] = "true" <=>
                   \/ ServerSide(raised[t])
                   \/ TimedOut(raised[t])
                   \/ NetworkFailure(raised[t])
            /\ (verdict[t] = "true" /\ LastFailed(t)) => rpc[t] = "sleeping"
            /\ verdict[t] = "false" => rpc[t] = "rejected"

C8_Witness ==
    /\ rpc[Caller] = "sleeping"
    /\ opts[Caller].shouldRetry = "default"
    /\ verdict[Caller] = "true"
    /\ ~raised[Caller].response
    /\ raised[Caller].code = "ECONNRESET"

\* C9 as stated: under the default policy an error carrying a 4xx status is
\* never retried, whatever its other fields.
C9_ClientErrorNeverRetried ==
    \A t \in Tasks :
        (/\ opts[t].shouldRetry = "default"
         /\ Len(history[t]) = 1
         /\ history[t][1] # "ok"
         /\ ClientError(raised[t])) =>
            /\ rpc[t] = "rejected"
            /\ calls[t] = 1
            /\ settled[t] = raised[t]

\* C9: under the default policy an error carrying a 4xx status whose code is
\* none of ECONNABORTED, ENOTFOUND, ECONNRESET is never retried: the operation
\* is not invoked again and that error is propagated.
C9_PlainClientErrorNotRetried ==
    \A t \in Tasks :
        /\ (/\ opts[t].shouldRetry = "default"
            /\ LastFailed(t)
            /\ ClientError(raised[t])
            /\ raised[t].code \notin NetworkCodes) =>
               /\ rpc[t] = "rejected"
               /\ settled[t] = raised[t]
        /\ (/\ opts[t].shouldRetry = "default"
            /\ Len(history[t]) = 1
            /\ history[t][1] # "ok"
            /\ ClientError(raised[t])
            /\ raised[t].code \notin NetworkCodes) =>
               /\ rpc[t] = "rejected"
               /\ calls[t] = 1
               /\ settled[t] = raised[t]

C9_Witness ==
    /\ rpc[Caller] = "rejected"
    /\ calls[Caller] = 1
    /\ opts[Caller].shouldRetry = "default"
    /\ opts[Caller].maxAttempts = 3
    /\ raised[Caller].response
    /\ raised[Caller].status = 400
    /\ raised[Caller].code = "ERR_BAD_REQUEST"

Settled(t) == rpc[t] \in {"resolved", "rejected"}

\* C23 as stated: in every run the number of waits equals the number of
\* invocations minus one.
C23_WaitsAreInvocationsMinusOne ==
    \A t \in Tasks : Settled(t) => Len(waits[t]) = calls[t] - 1

\* C23: no backoff wait follows a successful attempt, the last permitted
\* attempt, or a failure classified non-retryable: in every run that invoked
\* the operation (maxAttempts >= 1) the number of waits equals the number of
\* invocations minus one, a success returns with no further invocation, and
\* with maxAttempts = 1 the first failure propagates with zero waits.
C23_NoWaitAfterFinalAttempt ==
    \A t \in Tasks :
        /\ (Settled(t) /\ opts[t].maxAttempts >= 1) =>
               (calls[t] >= 1 /\ Len(waits[t]) = calls[t] - 1)
        /\ rpc[t] = "sleeping" =>
               /\ LastFailed(t)
               /\ Len(history[t]) < opts[t].maxAttempts
               /\ history[t][Len(history[t])] = "retryable"
               /\ Len(waits[t]) = calls[t]
        /\ (Len(history[t]) >= 1 /\ history[t][Len(history[t])] = "ok") =>
               /\ rpc[t] = "resolved"
               /\ calls[t] = Len(history[t])
               /\ Len(waits[t]) = calls[t] - 1
        /\ (opts[t].maxAttempts = 1 /\ Len(history[t]) >= 1
                /\ history[t][1] # "ok") =>
               /\ rpc[t] = "rejected"
               /\ calls[t] = 1
               /\ waits[t] = <<>>

C23_Witness ==
    /\ rpc[Caller] = "rejected"
    /\ opts[Caller].maxAttempts = 3
    /\ opts[Caller].shouldRetry = "always"
    /\ calls[Caller] = 3
    /\ Len(waits[Caller]) = 2

\* C34: if shouldRetry itself raises while classifying a failed attempt the
\* executor fails closed: no further invocation of the operation, no backoff
\* wait, and the call rejects.
C34_ClassifierRaiseFailsClosed ==
    \A t \in Tasks :
        verdict[t] = "raise" =>
            /\ rpc[t] = "rejected"
            /\ settled[t].kind = "error"
            /\ LastFailed(t)
            /\ Len(waits[t]) = calls[t] - 1

C34_Witness ==
    /\ verdict[Caller] = "raise"
    /\ opts[Caller].maxAttempts = 3
    /\ rpc[Caller] = "rejected"
    /\ calls[Caller] = 1
    /\ waits[Caller] = <<>>

\* C35: provided every invocation of the operation settles, every call with
\* maxAttempts >= 1 eventually settles, after at least one and at most
\* maxAttempts invocations and at most maxAttempts - 1 backoff waits.
C35_RunTerminates ==
    /\ \A t \in Tasks :
           (rpc[t] # "idle" /\ opts[t].maxAttempts >= 1) ~> Settled(t)
    /\ [](\A t \in Tasks :
             (rpc[t] # "idle" /\ opts[t].maxAttempts >= 1) =>
                 /\ calls[t] >= 1
                 /\ calls[t] <= opts[t].maxAttempts
                 /\ Len(waits[t]) <= opts[t].maxAttempts - 1)

C35_Witness ==
    /\ Settled(Caller)
    /\ opts[Caller].maxAttempts = MaxAttempts
    /\ calls[Caller] = MaxAttempts
    /\ Len(waits[Caller]) = MaxAttempts - 1

\* C39: a call with maxAttempts < 1 never invokes the operation, never waits,
\* and rejects with undefined, the last error that was never assigned.
C39_NoAttemptRejectsUndefined ==
    \A t \in Tasks :
        (rpc[t] # "idle" /\ opts[t].maxAttempts < 1) =>
            /\ rpc[t] = "rejected"
            /\ settled[t] = Undefined
            /\ calls[t] = 0
            /\ history[t] = <<>>
            /\ waits[t] = <<>>

C39_Witness ==
    /\ rpc[Caller] = "rejected"
    /\ opts[Caller].maxAttempts = -1
    /\ opts[Caller].shouldRetry = "always"
    /\ settled[Caller] = Undefined

\* everything the call of task t keeps
CallState(t) ==
    <<opts[t], rpc[t], attempt[t], lastError[t], settled[t], wakeAt[t],
      calls[t], raised[t], waits[t], history[t], verdict[t]>>

\* C24: concurrent calls of the executor are independent: each call has its
\* own attempt counter and last error, so in every interleaving each call
\* invokes its own operation at most its own maxAttempts times, waits its own
\* delay sequence, and settles according to the outcomes of its own operation
\* alone; no step of one call changes anything of another.
C24_CallsAreIndependent ==
    /\ [](\A t \in Tasks : rpc[t] # "idle" =>
            /\ calls[t] <= opts[t].maxAttempts
            /\ Pending(t) => attempt[t] = calls[t]
            /\ \A i \in 1..Len(waits[t]) :
                   waits[t][i] =
                       Min(opts[t].baseDelay * 2 ^ (i - 1), opts[t].maxDelay)
            /\ LastFailed(t) =>
                   /\ lastError[t] = raised[t]
                   /\ raised[t].message = ToString(t)
                   /\ raised[t].id = calls[t]
            /\ rpc[t] = "resolved" <=>
                   (Len(history[t]) >= 1 /\ history[t][Len(history[t])] = "ok")
            /\ rpc[t] = "resolved" => settled[t] = ValueOf(t, calls[t])
            /\ rpc[t] = "rejected" <=>
                   /\ LastFailed(t)
                   /\ \/ history[t][Len(history[t])] = "nonretryable"
                      \/ Len(history[t]) = opts[t].maxAttempts
            /\ rpc[t] = "rejected" => settled[t] = raised[t])
    /\ [][\A t, u \in Tasks :
              (t # u /\ CallState(t)' # CallState(t)) =>
                  CallState(u)' = CallState(u)]_vars

C24_Witness ==
    \E t, u \in Tasks :
        /\ t # u
        /\ opts[t].maxAttempts = 1 /\ opts[u].maxAttempts = 3
        /\ opts[t].baseDelay = 1 /\ opts[u].baseDelay = 2
        /\ rpc[t] = "rejected" /\ settled[t].status = 503
        /\ rpc[u] = "resolved" /\ calls[u] = 3 /\ waits[u] = <<2, 3>>
        /\ settled[u] = ValueOf(u, 3)

-----------------------------------------------------------------------------
(* Claims about the weather lookup *)

\* the lookup of task t began while the store held, under its key, an entry
\* that had not expired
BeganOnValidEntry(t) ==
    /\ lpc[t] # "idle"
    /\ ~invalidCity(lcity[t])
    /\ lfound[t].present
    /\ lfound[t].at <= lfound[t].expiresAt

\* C10: a lookup that starts while the entry an earlier lookup stored for the
\* same normalized city is still valid returns the cached record, invokes the
\* upstream fetch zero times and performs no cache write.
C10_ValidEntryServedFromCache ==
    \A t \in Tasks :
        BeganOnValidEntry(t) =>
            /\ lpc[t] = "done"
            /\ lres[t] = lfound[t].data
            /\ rpc[t] = "idle"
            /\ calls[t] = 0
            /\ lwrites[t] = 0

C10_Witness ==
    \E t, u \in Tasks :
        /\ t # u
        /\ BeganOnValidEntry(t)
        /\ lfound[t].at > 0
        /\ lcity[t] # lcity[u]
        /\ lpc[u] = "done"
        /\ lwrites[u] = 1
        /\ calls[u] = 2
        /\ lres[t] = lres[u]
        /\ lres[t].source = "openweathermap"

\* the lookup of task t began while the store held no entry under its key,
\* or one that had expired
Missed(t) ==
    /\ lpc[t] # "idle"
    /\ ~invalidCity(lcity[t])
    /\ (~lfound[t].present \/ lfound[t].at > lfound[t].expiresAt)

\* the entry a lookup stores at instant n for the record it returns
Stored(t, n) == [data |-> lres[t], expiresAt |-> n + config.cacheTtl]

\* C11: a lookup that misses the cache and whose fetch succeeds stores the
\* fetched record under the normalized key with expiresAt = (time of the
\* store) + configured TTL and returns that same record; the steps come in the
\* order cache get, fetch (through the retry executor when an API key is
\* configured), cache set, return.
C11_MissFetchesThenStores ==
    /\ [](\A t \in Tasks :
            /\ lpc[t] \in {"fetching", "storing"} =>
                   (Missed(t) /\ lwrites[t] = 0)
            /\ lpc[t] = "failed" => lwrites[t] = 0
            /\ (lpc[t] = "done" /\ Missed(t)) =>
                   /\ lwrites[t] = 1
                   /\ lres[t].kind = "weather"
                   /\ lres[t].city = toLowerCase(trim(lcity[t].chars))
                   /\ config.apiKey =>
                          /\ rpc[t] = "resolved"
                          /\ calls[t] >= 1
                          /\ lres[t] = settled[t]
                   /\ ~config.apiKey => rpc[t] = "idle")
    /\ [][\A t \in Tasks : CacheTheResult(t) =>
              /\ lfound[t].at <= now
              /\ lpc'[t] = "done"
              /\ cacheKey(lcity[t]) \in DOMAIN cache'
              /\ cache'[cacheKey(lcity[t])] =
                     [data |-> lres'[t], expiresAt |-> now + config.cacheTtl]
              /\ SameEntries(cache, cache',
                             DOMAIN cache \ {cacheKey(lcity[t])})]_vars

C11_Witness ==
    \E t \in Tasks :
        /\ lpc[t] = "done"
        /\ Missed(t)
        /\ config.apiKey
        /\ calls[t] = 2
        /\ now > 0
        /\ lcity[t] = Str(<<" ", "l", "a", " ">>)
        /\ DOMAIN cache = {<<"weather:", "l", "a">>}
        /\ cache[<<"weather:", "l", "a">>] = Stored(t, now)

\* tasks t and u look up the same city, and neither found a usable entry
BothMissed(t, u) ==
    /\ t # u
    /\ Missed(t) /\ Missed(u)
    /\ cacheKey(lcity[t]) = cacheKey(lcity[u])

\* C12: two lookups for the same city that both miss each invoke the upstream
\* fetch on their own (no single-flight deduplication) and both write the
\* cache; the key has one entry, and each write replaces it with the value and
\* expiry of that write, so that it holds those of whichever write came last.
C12_BothFetchLastWriteWins ==
    /\ [](\A t, u \in Tasks : BothMissed(t, u) =>
            /\ (config.apiKey /\ lpc[t] = "fetching") =>
                   (rpc[t] # "idle" /\ calls[t] >= 1)
            /\ lpc[t] = "done" => lwrites[t] = 1
            /\ (lpc[t] = "done" /\ lpc[u] = "done") =>
                   /\ lres[t] # lres[u]
                   /\ config.apiKey => (calls[t] >= 1 /\ calls[u] >= 1)
                   /\ cacheKey(lcity[t]) \in DOMAIN cache =>
                          \E w \in Tasks :
                              /\ lwrites[w] = 1
                              /\ cacheKey(lcity[w]) = cacheKey(lcity[t])
                              /\ cache[cacheKey(lcity[t])].data = lres[w])
    /\ [][\A t, u \in Tasks :
              (BothMissed(t, u) /\ lwrites[u] = 1 /\ CacheTheResult(t)) =>
                  cache'[cacheKey(lcity[t])] =
                      [data |-> lres'[t], expiresAt |-> now + config.cacheTtl]]_vars

C12_Witness ==
    \E t, u \in Tasks :
        /\ BothMissed(t, u)
        /\ ~lfound[t].present /\ ~lfound[u].present
        /\ lfound[t].at = 0 /\ lfound[u].at = 0
        /\ lcity[t] # lcity[u]
        /\ lpc[t] = "done" /\ lpc[u] = "done"
        /\ lwrites[t] = 1 /\ lwrites[u] = 1
        /\ config.apiKey
        /\ lres[u].serial < lres[t].serial
        /\ now > 0
        /\ cache[cacheKey(lcity[t])] = Stored(u, now)

\* spellings of one city that differ in letter case and surrounding whitespace
Spellings == {Str(<<"L", "A">>), Str(<<" ", "l", "a", " ">>)}

-----------------------------------------------------------------------------
(* Claims about the settings of the weather service *)

\* the lookup of task t missed the cache and has returned or thrown
MissSettled(t) == Missed(t) /\ lpc[t] \in {"done", "failed"}

\* the waits of task t's fetch are 1 second, then doubling, at most 8 seconds
WaitsDouble(t) ==
    \A i \in 1..Len(waits[t]) :
        /\ waits[t][i] = Min(1000 * 2 ^ (i - 1), 8000)
        /\ waits[t][i] <= 8000

\* C31 as stated: on a cache miss with an API key the upstream fetch is
\* attempted at least once and at most MAX_RETRY_ATTEMPTS times (3 when the
\* variable is unset), for every integer value of the variable, with waits of
\* 1 second, then doubling, never more than 8 seconds.
C31_AttemptsWithinSetting ==
    \A t \in Tasks :
        (MissSettled(t) /\ config.apiKey) =>
            /\ calls[t] >= 1
            /\ calls[t] <= (IF config.env.MAX_RETRY_ATTEMPTS.given
                            THEN config.env.MAX_RETRY_ATTEMPTS.value ELSE 3)
            /\ WaitsDouble(t)

\* the attempt budget the setting gives: its value, 3 when it is unset or 0
Budget ==
    IF config.env.MAX_RETRY_ATTEMPTS.given
           /\ config.env.MAX_RETRY_ATTEMPTS.value # 0
    THEN config.env.MAX_RETRY_ATTEMPTS.value
    ELSE 3

\* C31: on a cache miss with an API key the upstream fetch is attempted at
\* least once and at most N times, N being MAX_RETRY_ATTEMPTS when it is a
\* positive integer and 3 when it is unset or 0, with waits of 1 second, then
\* doubling, never more than 8 seconds; with a negative value the fetch is not
\* attempted and the lookup fails.
C31_AttemptsWithinBudget ==
    \A t \in Tasks :
        /\ (Missed(t) /\ config.apiKey /\ Budget >= 1) =>
               /\ calls[t] >= 1
               /\ calls[t] <= Budget
               /\ WaitsDouble(t)
               /\ lpc[t] \in {"done", "failed"} => Len(waits[t]) = calls[t] - 1
        /\ (Missed(t) /\ config.apiKey /\ Budget < 1) =>
               /\ calls[t] = 0
               /\ waits[t] = <<>>
               /\ lpc[t] \in {"fetching", "failed"}

C31_Witness ==
    /\ lpc[Caller] = "failed"
    /\ config.env.MAX_RETRY_ATTEMPTS = Env(6)
    /\ calls[Caller] = 6
    /\ waits[Caller] = <<1000, 2000, 4000, 8000, 8000>>

\* C37: a lookup whose upstream fetch finally fails writes nothing to the
\* cache (an entry another lookup stored meanwhile is left as it is) and
\* rejects with the executor's error, the error of its last fetch, unchanged;
\* a later lookup of the same city that still misses invokes the fetch again.
C37_FailedLookupWritesNothing ==
    /\ [](\A t \in Tasks :
             (lpc[t] = "failed" /\ Missed(t)) =>
                 /\ lwrites[t] = 0
                 /\ rpc[t] = "rejected"
                 /\ lres[t] = settled[t]
                 /\ lres[t] = raised[t]
                 /\ lres[t].id = calls[t])
    /\ [][\A t \in Tasks : RethrowError(t) =>
              (cache' = cache /\ lwrites' = lwrites)]_vars
    /\ [][\A t, u \in Tasks, city \in Cities :
              (/\ lpc[t] = "failed" /\ Missed(t)
               /\ ~invalidCity(city)
               /\ cacheKey(city) = cacheKey(lcity[t])
               /\ ~truthy(get(cache, now, cacheKey(city)).ret)
               /\ GetWeatherByCity(u, city)) =>
                  IF config.apiKey
                  THEN lpc'[u] = "fetching" /\ calls'[u] = 1
                  ELSE lpc'[u] = "storing"]_vars

C37_Witness ==
    /\ lpc[1] = "failed" /\ Missed(1) /\ calls[1] = 2
    /\ Missed(2) /\ lwrites[2] = 1
    /\ cacheKey(lcity[1]) = cacheKey(lcity[2])
    /\ now >= 1000
    /\ cacheKey(lcity[2]) \in DOMAIN cache
    /\ cache[cacheKey(lcity[2])] =
           [data |-> lres[2], expiresAt |-> config.cacheTtl]

\* C38: a clear() or cleanup executed while a lookup's fetch is in flight does
\* not cancel that lookup's write: the lookup goes on, and when its fetch
\* completes the result is stored with a fresh TTL, so that after a completed
\* clear the cache holds again a record whose fetch started before the clear.
C38_ClearDoesNotCancelWrite ==
    /\ [](\A t \in DOMAIN ledger :
             /\ Missed(t)
             /\ lpc[t] = "done" => lwrites[t] = 1)
    /\ [][(ClearWhileInFlight \/ CleanupWhileInFlight) =>
              (lpc' = lpc /\ rpc' = rpc /\ settled' = settled)]_vars
    /\ [][\A t \in DOMAIN ledger : CacheTheResult(t) =>
              /\ lpc'[t] = "done"
              /\ cache'[cacheKey(lcity[t])] =
                     [data |-> lres'[t], expiresAt |-> now + config.cacheTtl]]_vars

C38_Witness ==
    \E t \in DOMAIN ledger :
        /\ ledger[t] = "cleared"
        /\ lpc[t] = "done"
        /\ config.apiKey
        /\ lfound[t].at < now
        /\ DOMAIN cache = {cacheKey(lcity[t])}
        /\ cache[cacheKey(lcity[t])] = Stored(t, now)

\* C33: when no API key was configured, every lookup that misses the cache
\* returns a record with source 'mock' without going through the retry
\* executor or the upstream fetch, and the mock record is cached like a real
\* one: a later lookup that finds it still valid returns the identical record.
C33_MockWithoutKey ==
    \A t \in Tasks :
        /\ (~config.apiKey /\ Missed(t)) =>
               /\ rpc[t] = "idle"
               /\ calls[t] = 0
               /\ lpc[t] \in {"storing", "done"}
               /\ lres[t].kind = "weather"
               /\ lres[t].source = "mock"
               /\ lpc[t] = "done" => lwrites[t] = 1
        /\ (~config.apiKey /\ BeganOnValidEntry(t)) =>
               /\ lres[t].source = "mock"
               /\ lwrites[t] = 0
               /\ \E u \in Tasks \ {t} :
                      /\ Missed(u)
                      /\ lwrites[u] = 1
                      /\ lres[u] = lres[t]

C33_Witness ==
    /\ ~config.apiKey
    /\ Missed(1) /\ lpc[1] = "done"
    /\ BeganOnValidEntry(2)
    /\ lfound[2].at > 0
    /\ lcity[1] # lcity[2]
    /\ lres[2] = lres[1]

\* C32: every entry stored by a weather lookup expires CACHE_TTL_MINUTES
\* minutes after it was stored (3 minutes when the variable is unset), for
\* every non-negative integer value of the variable.
C32_ExpiresAfterSetting ==
    [][\A t \in Tasks :
          (/\ CacheTheResult(t)
           /\ config.env.CACHE_TTL_MINUTES.given =>
                  config.env.CACHE_TTL_MINUTES.value >= 0) =>
              cache'[cacheKey(lcity[t])].expiresAt =
                  now + 60 * 1000 * (IF config.env.CACHE_TTL_MINUTES.given
                                     THEN config.env.CACHE_TTL_MINUTES.value
                                     ELSE 3)]_vars

-----------------------------------------------------------------------------
(* Claims about the cleanup interval *)

\* C25: after stopCleanup() has been called the periodic cleanup never runs
\* again and no timer remains pending; stopCleanup can be called any number
\* of times, also when no timer was ever started (NODE_ENV = test), and does
\* nothing but clear the timer.
C25_StopCleanupStops ==
    /\ [](timer.stopped => timer.interval # "armed")
    /\ [][timer.stopped =>
              /\ timer'.ticks = timer.ticks
              /\ timer'.interval = timer.interval
              /\ timer'.stopped]_vars
    /\ [][StopCleanup =>
              /\ timer'.stopped
              /\ timer'.interval # "armed"
              /\ timer.interval = "undefined" => timer'.interval = "undefined"
              /\ cache' = cache]_vars

C25_Witness ==
    /\ timer.stopped
    /\ timer.interval = "null"
    /\ timer.ticks = 1
    /\ now >= timer.due
    /\ \E k \in DOMAIN cache : expired(now, cache[k])

\* C27: while the cleanup interval is armed (and a run of it is still to come,
\* within the horizon that is followed), every expired entry is eventually
\* removed from the store, although no get, set or delete is issued on its
\* key again: only a later set on the key, or stopCleanup, ends the wait
\* otherwise.
C27_ExpiredEventuallyRemoved ==
    \A k \in Keys :
        (/\ k \in DOMAIN cache
         /\ expired(now, cache[k])
         /\ timer.interval = "armed"
         /\ timer.ticks < MaxTicks)
        ~> (\/ k \notin DOMAIN cache
            \/ ~expired(now, cache[k])
            \/ timer.interval # "armed")

C27_Witness ==
    /\ timer.interval = "armed"
    /\ timer.ticks = 1
    /\ \E k \in DOMAIN setInfo : k \notin DOMAIN cache
    /\ \E k \in DOMAIN cache : ~expired(now, cache[k])

\* C21: whatever the interleaving of concurrent lookups, clearCache, getStats
\* and the periodic cleanup, an entry of the store is never seen half written:
\* every step leaves each entry as it was, or removes it, or the entry is the
\* value and the expiry that one set call (of the lookup caching its result
\* in that step) wrote together; getStats counts every entry once, as valid
\* or as expired.
C21_EntriesWrittenWhole ==
    /\ [][\A k \in DOMAIN cache' :
              \/ (k \in DOMAIN cache /\ cache'[k] = cache[k])
              \/ \E t \in Tasks :
                     /\ CacheTheResult(t)
                     /\ k = cacheKey(lcity[t])
                     /\ cache'[k] = [data |-> lres'[t],
                                     expiresAt |-> now + config.cacheTtl]]_vars
    /\ [][GetCacheStats =>
              /\ last'.ret.totalEntries = Cardinality(DOMAIN cache)
              /\ last'.ret.totalEntries =
                     last'.ret.validEntries + last'.ret.expiredEntries]_vars

C21_Witness ==
    /\ lwrites[1] = 1 /\ lwrites[2] = 1
    /\ cacheKey(lcity[1]) = cacheKey(lcity[2])
    /\ lres[1] # lres[2]
    /\ last.op = "getStats" /\ last.ret.expiredEntries = 1
    /\ \E k \in DOMAIN cache : cache[k].data = lres[2] /\ ~expired(now, cache[k])

\* C28: a lookup whose city is invalid (null, undefined, not a string, the
\* empty string, only whitespace) rejects with an error whose message
\* contains 'City name is required', and neither reads nor writes the cache
\* nor invokes the fetch.
InvalidCities ==
    {NotAString("null"), NotAString("undefined"), NotAString("number"),
     Str(<<>>), Str(<<" ">>)}

C28_InvalidCityRejected ==
    /\ \A c \in InvalidCities : c \in Cities /\ invalidCity(c)
    /\ [](\A t \in Tasks :
             (lpc[t] # "idle" /\ lcity[t] \in InvalidCities) =>
                 /\ lpc[t] = "failed"
                 /\ lres[t].kind = "error"
                 /\ includes(lres[t].message, "City name is required")
                 /\ calls[t] = 0
                 /\ lwrites[t] = 0
                 /\ rpc[t] = "idle")
    /\ [][\A t \in Tasks, c \in InvalidCities :
              GetWeatherByCity(t, c) =>
                  /\ cache' = cache
                  /\ lfound'[t] = lfound[t]
                  /\ calls' = calls
                  /\ rpc' = rpc]_vars

C28_Witness ==
    /\ lpc[1] = "failed" /\ lcity[1] = Str(<<" ">>) /\ lres[1] = CityRequired
    /\ lpc[2] = "done" /\ lwrites[2] = 1 /\ calls[2] = 2
    /\ DOMAIN cache # {}

\* C26: cleanup is not needed for correctness: after the same sequence of
\* set, get, delete, clear and clock advances, a get on any key returns the
\* same from the store on which cleanup ran in between as from the store on
\* which it never ran; the two stores differ only in expired entries that
\* the second still holds.
C26_CleanupNotNeeded ==
    /\ \A k \in Keys : get(cache, now, k).ret = get(bare, now, k).ret
    /\ \A k \in DOMAIN cache : k \in DOMAIN bare /\ bare[k] = cache[k]
    /\ \A k \in DOMAIN bare : k \notin DOMAIN cache => expired(now, bare[k])

C26_Witness ==
    /\ last.op = "get"
    /\ last.ret \in Data
    /\ prev.op = "cleanup"
    /\ \E k \in DOMAIN bare : k \notin DOMAIN cache

-----------------------------------------------------------------------------
(* Claims about the controller of GET /weather *)

Failed == http.pc = "responded" /\ http.outcome.kind = "error"
CityMessage == includes(http.outcome.message, "City name is required")
Answered(n) == http.outcome.response /\ http.outcome.status = n

\* C29: GET /weather maps a failed lookup to a status in this order: a
\* message containing 'City name is required' gives 400; otherwise a response
\* status 404 gives 404; otherwise a response status 401 gives 500; otherwise
\* a code ECONNABORTED or ENOTFOUND gives 503; anything else gives 500.  A
\* request without the city parameter is answered 400 without calling the
\* lookup service.
C29_StatusByFirstMatch ==
    /\ Failed =>
          /\ CityMessage => http.status = 400
          /\ (~CityMessage /\ Answered(404)) => http.status = 404
          /\ (~CityMessage /\ Answered(401)) => http.status = 500
          /\ (/\ ~CityMessage /\ ~Answered(404) /\ ~Answered(401)
              /\ http.outcome.code \in {"ECONNABORTED", "ENOTFOUND"})
                 => http.status = 503
          /\ (/\ ~CityMessage /\ ~Answered(404) /\ ~Answered(401)
              /\ http.outcome.code \notin {"ECONNABORTED", "ENOTFOUND"})
                 => http.status = 500
    /\ (http.pc = "responded" /\ notCity(http.city)) =>
          (http.status = 400 /\ http.lookups = 0)

C29_Witness ==
    /\ Failed
    /\ ~CityMessage
    /\ Answered(404)
    /\ http.outcome.code = "ECONNABORTED"
    /\ http.status = 404

\* C30: when the weather API is down GET /weather responds 503: every lookup
\* that failed because the upstream was unavailable (a 5xx answer, a timeout,
\* a DNS failure, a connection reset) is answered 503.
UpstreamDown ==
    /\ Failed
    /\ ~CityMessage
    /\ \/ (http.outcome.response /\ http.outcome.status >= 500)
       \/ (~http.outcome.response /\ http.outcome.code \in NetworkCodes)

C30_DownIs503 == UpstreamDown => http.status = 503

-----------------------------------------------------------------------------
(* Claims about the server process *)

\* C40: in the running server, on SIGTERM or SIGINT the process exits only
\* after the HTTP server has finished closing (exit code 0, or 1 if closing
\* failed) or after the 10-second forced-shutdown timeout (exit code 1); it
\* never exits while the server is still open before that timeout.
C40_ExitsOnlyAfterClose ==
    (proc.phase = "exited" /\ proc.signal # "none") =>
        \/ (proc.server \notin {"listening", "closing"} /\ proc.code \in {0, 1})
        \/ (now >= proc.signalAt + 10000 /\ proc.code = 1)

-----------------------------------------------------------------------------
(* Claims about concurrent tasks *)

\* the keys the ledger holds with one of the given marks
Marked(marks) == {k \in DOMAIN ledger : ledger[k] \in marks}

\* C20 as stated: in every interleaving of the tasks' calls, getStats()
\* reports as totalEntries the number of distinct keys ever set minus those
\* that delete or clear removed.
C20_TotalIsSetMinusDeleted ==
    getStats(cache, now).totalEntries =
        Cardinality(DOMAIN ledger) - Cardinality(Marked({"deleted", "cleared"}))

\* C20: in every interleaving of the tasks' calls, getStats() reports as
\* totalEntries the number of distinct keys ever set minus those whose entry
\* was since removed, by delete, by clear, or after its expiry by get or by
\* cleanup.
C20_TotalIsSetMinusRemoved ==
    /\ getStats(cache, now).totalEntries =
           Cardinality(DOMAIN ledger)
           - Cardinality(Marked({"deleted", "cleared", "reclaimed"}))
    /\ DOMAIN cache = Marked({"stored"})

C20_Witness ==
    /\ DOMAIN ledger = {TaskKey(t) : t \in Tasks}
    /\ \E k \in DOMAIN ledger : ledger[k] = "deleted"
    /\ \E k \in DOMAIN cache : expired(now, cache[k])
    /\ getStats(cache, now).totalEntries = NumTasks - 1

====
